---- MODULE Spec2Model ----
(***************************************************************************)
(* A model of go.uber.org/net/metrics: the push flag of a Root, the        *)
(* registry's uniqueness checks, the lazily populated vectors and the      *)
(* counter cell.  Strings are sequences of one-character strings so that   *)
(* scrubbing and sorting are computed character by character.              *)
(***************************************************************************)
EXTENDS Integers, Sequences, FiniteSets, TLC

VARIABLES
    \* Root.pushing and the Push calls made on the Root
    pushing, pushPc, pushOld, pushRet, pusherSt, pushAfterStop,
    \* one Counter: its cell, the last completed call, the last two Loads
    ctrVal, ctrLast, loadPrev, loadLast,
    \* coreRegistry: its lock and three collections; the register calls in
    \* flight (regPc, regArg, regRet) and the last creation call (regLast)
    regMu, dimsByName, ids, metrics, regPc, regArg, regRet, regLast,
    \* one CounterVector: its lock and map; the Get calls in flight (getPc,
    \* getArgs), the last Get returned (lastGet), the instances handed out
    \* per key (served) and the factory's invocations per key (factoryCalls)
    vecMu, vecMetrics, getPc, getArgs, lastGet, served, factoryCalls,
    \* the last histogram options validated and the verdict
    latLast,
    \* the Scopes made so far, the last Labeled call and the arguments of the
    \* last creation call made on a Scope
    scopes, chains, labLast, callIn,
    \* the last method called on a nil metric
    nilLast,
    \* the values of the registered metrics: cells[<<i, key>>] is the value
    \* the i-th registered metric holds under the key (the empty key for a
    \* scalar that was written to); incs counts the increments made through
    \* each list of labels; the last Snapshot returned, the length of the
    \* metric list then, and the number of Snapshots taken since a value was
    \* last touched or a metric last registered
    cells, incs, snapLast, snapLen, snapRun,
    \* one Gauge: its cell and the last completed call
    gaugeVal, gaugeLast,
    \* one Histogram: its per-bucket counters, the overflow bucket's last;
    \* the last observation made; how often each value was observed
    bucketCounts, histLast, histObserved,
    \* the pusher's loop, the metrics it walks, the stop call and what the
    \* target has been asked
    pushMetrics, pushCells, pushLoop, pushAt, pushStop, pushStopPc, pushStopSaw, pushTicks, pushTarget,
    \* the Tally counter handle: its last total, the increments it forwarded
    \* and the totals it was set to
    tallyLast, tallyIncs, tallySets,
    \* one counter's cell and the goroutines that call Add on it
    addVal, addPc, addN, addRet,
    \* the objects made by the vectors' factories and each vector's map from
    \* key to object
    entHeap, entMap,
    \* the registry's lock and a vector's lock, the calls that take them, the
    \* identities and keys recorded
    lkReg, lkVec, lkPc, lkArg, lkIds, lkKeys, lkCalls,
    \* what the last snapshot that ran beside the register calls found in the
    \* registry
    regSeen,
    \* a vector's map of entries and the last Get made on it
    gnMetrics, gnLast,
    \* tallypush histogram handle: its type, its lasts map, what it handed to
    \* the tally histogram, and the Set calls made
    thType, thLasts, thRecorded, thCalls,
    \* tallypush histogram handle with a bucket list: lasts, bucketValue,
    \* what it handed to tally, the last call with the lists it found, and
    \* the number of calls
    tiLasts, tiBucketValue, tiRecorded, tiLast, tiCalls

ctrVars == <<ctrVal, ctrLast, loadPrev, loadLast>>

pushVars == <<pushing, pushPc, pushOld, pushRet, pusherSt, pushAfterStop>>

coreVars == <<dimsByName, ids, metrics>>

regVars == <<regMu, coreVars, regPc, regArg, regRet, regLast>>

vecVars == <<vecMu, vecMetrics, getPc, getArgs, lastGet, served, factoryCalls>>

optVars == <<latLast>>

scopeVars == <<scopes, chains, labLast, callIn>>

nilVars == <<nilLast>>

snapVars == <<cells, incs, snapLast, snapLen, snapRun>>

gaugeVars == <<gaugeVal, gaugeLast>>

histVars == <<bucketCounts, histLast, histObserved>>

pusherVars == <<pushMetrics, pushCells, pushLoop, pushAt, pushStop, pushStopPc, pushStopSaw, pushTicks, pushTarget>>

tallyVars == <<tallyLast, tallyIncs, tallySets>>

addConcVars == <<addVal, addPc, addN, addRet>>

entriesVars == <<entHeap, entMap>>

locksVars == <<lkReg, lkVec, lkPc, lkArg, lkIds, lkKeys, lkCalls>>

seenVars == <<regSeen>>

getNamesVars == <<gnMetrics, gnLast>>

tallyHistVars == <<thType, thLasts, thRecorded, thCalls>>

tallyIndexVars == <<tiLasts, tiBucketValue, tiRecorded, tiLast, tiCalls>>

vars ==
    <<pushVars, ctrVars, regVars, vecVars, optVars, scopeVars, nilVars,
      snapVars, gaugeVars, histVars, pusherVars, tallyVars, addConcVars,
      entriesVars, locksVars, seenVars, getNamesVars, tallyHistVars,
      tallyIndexVars>>

\* What an action on one part of the program leaves alone.
notPush ==
    <<scopeVars, nilVars, snapVars, ctrVars, regVars, vecVars, optVars,
      gaugeVars, histVars, pusherVars, tallyVars, addConcVars, entriesVars,
      locksVars, seenVars, getNamesVars, tallyHistVars, tallyIndexVars>>

notCounter ==
    <<scopeVars, nilVars, snapVars, pushVars, regVars, vecVars, optVars,
      gaugeVars, histVars, pusherVars, tallyVars, addConcVars, entriesVars,
      locksVars, seenVars, getNamesVars, tallyHistVars, tallyIndexVars>>

notRegistry ==
    <<scopeVars, nilVars, snapVars, pushVars, ctrVars, vecVars, optVars,
      gaugeVars, histVars, pusherVars, tallyVars, addConcVars, entriesVars,
      locksVars, seenVars, getNamesVars, tallyHistVars, tallyIndexVars>>

notVector ==
    <<scopeVars, nilVars, snapVars, pushVars, ctrVars, regVars, optVars,
      gaugeVars, histVars, pusherVars, tallyVars, addConcVars, entriesVars,
      locksVars, seenVars, getNamesVars, tallyHistVars, tallyIndexVars>>

notOpts ==
    <<pushVars, ctrVars, regVars, vecVars, scopeVars, nilVars, snapVars,
      gaugeVars, histVars, pusherVars, tallyVars, addConcVars, entriesVars,
      locksVars, seenVars, getNamesVars, tallyHistVars, tallyIndexVars>>

\* The registry apart, what a call on a Scope leaves alone.
notScope ==
    <<pushVars, ctrVars, vecVars, optVars, nilVars, snapVars, gaugeVars,
      histVars, pusherVars, tallyVars, addConcVars, entriesVars, locksVars,
      seenVars, getNamesVars, tallyHistVars, tallyIndexVars>>

notNil ==
    <<pushVars, ctrVars, regVars, vecVars, optVars, scopeVars, snapVars,
      gaugeVars, histVars, pusherVars, tallyVars, addConcVars, entriesVars,
      locksVars, seenVars, getNamesVars, tallyHistVars, tallyIndexVars>>

notSnapshot ==
    <<pushVars, ctrVars, regVars, vecVars, optVars, scopeVars, nilVars,
      gaugeVars, histVars, pusherVars, tallyVars, addConcVars, entriesVars,
      locksVars, seenVars, getNamesVars, tallyHistVars, tallyIndexVars>>

notGauge ==
    <<pushVars, ctrVars, regVars, vecVars, optVars, scopeVars, nilVars,
      snapVars, histVars, pusherVars, tallyVars, addConcVars, entriesVars,
      locksVars, seenVars, getNamesVars, tallyHistVars, tallyIndexVars>>

notHistogram ==
    <<pushVars, ctrVars, regVars, vecVars, optVars, scopeVars, nilVars,
      snapVars, gaugeVars, pusherVars, tallyVars, addConcVars, entriesVars,
      locksVars, seenVars, getNamesVars, tallyHistVars, tallyIndexVars>>

notPusher ==
    <<pushVars, ctrVars, regVars, vecVars, optVars, scopeVars, nilVars,
      snapVars, gaugeVars, histVars, tallyVars, addConcVars, entriesVars,
      locksVars, seenVars, getNamesVars, tallyHistVars, tallyIndexVars>>

notTally ==
    <<pushVars, ctrVars, regVars, vecVars, optVars, scopeVars, nilVars,
      snapVars, gaugeVars, histVars, pusherVars, addConcVars, entriesVars,
      locksVars, seenVars, getNamesVars, tallyHistVars, tallyIndexVars>>

notAddConc ==
    <<pushVars, ctrVars, regVars, vecVars, optVars, scopeVars, nilVars,
      snapVars, gaugeVars, histVars, pusherVars, tallyVars, entriesVars,
      locksVars, seenVars, getNamesVars, tallyHistVars, tallyIndexVars>>

notEntries ==
    <<pushVars, ctrVars, regVars, vecVars, optVars, scopeVars, nilVars,
      snapVars, gaugeVars, histVars, pusherVars, tallyVars, addConcVars,
      locksVars, seenVars, getNamesVars, tallyHistVars, tallyIndexVars>>

notLocks ==
    <<pushVars, ctrVars, regVars, vecVars, optVars, scopeVars, nilVars,
      snapVars, gaugeVars, histVars, pusherVars, tallyVars, addConcVars,
      entriesVars, seenVars, getNamesVars, tallyHistVars, tallyIndexVars>>

notSeen ==
    <<pushVars, ctrVars, regVars, vecVars, optVars, scopeVars, nilVars,
      snapVars, gaugeVars, histVars, pusherVars, tallyVars, addConcVars,
      entriesVars, locksVars, getNamesVars, tallyHistVars, tallyIndexVars>>

notGetNames ==
    <<pushVars, ctrVars, regVars, vecVars, optVars, scopeVars, nilVars,
      snapVars, gaugeVars, histVars, pusherVars, tallyVars, addConcVars,
      entriesVars, locksVars, seenVars, tallyHistVars, tallyIndexVars>>

notTallyHist ==
    <<pushVars, ctrVars, regVars, vecVars, optVars, scopeVars, nilVars,
      snapVars, gaugeVars, histVars, pusherVars, tallyVars, addConcVars,
      entriesVars, locksVars, seenVars, getNamesVars, tallyIndexVars>>

notTallyIndex ==
    <<pushVars, ctrVars, regVars, vecVars, optVars, scopeVars, nilVars,
      snapVars, gaugeVars, histVars, pusherVars, tallyVars, addConcVars,
      entriesVars, locksVars, seenVars, getNamesVars, tallyHistVars>>

----------------------------------------------------------------------------
(* Root.Push *)

\* Number of Push calls made on the one Root over a run.
MaxPushCalls == 4

PushCalls == 1..MaxPushCalls

NoResult == [err |-> "pending", stop |-> 0]

\* The state after New(): the zero atomic.Bool, no call made, no pusher.
InitPush ==
    /\ pushing = FALSE
    /\ pushPc = [c \in PushCalls |-> "idle"]
    /\ pushOld = [c \in PushCalls |-> FALSE]
    /\ pushRet = [c \in PushCalls |-> NoResult]
    /\ pusherSt = [c \in PushCalls |-> "none"]
    /\ pushAfterStop = [c \in PushCalls |-> FALSE]

\* A Push whose first statement reads the flag without setting it.
RootPushLoadOnly(c) ==
    /\ pushPc[c] = "idle"
    /\ pushOld' = [pushOld EXCEPT ![c] = pushing]
    /\ pushPc' = [pushPc EXCEPT ![c] = "swapped"]
    /\ pushAfterStop' = [pushAfterStop EXCEPT
                            ![c] = \E d \in PushCalls : pusherSt[d] = "stopped"]
    /\ UNCHANGED <<pushing, pushRet, pusherSt>>
    /\ UNCHANGED notPush

\* r.pushing.Swap(true): one atomic exchange; the call keeps the old value.
RootPushSwap(c) ==
    /\ pushPc[c] = "idle"
    /\ pushOld' = [pushOld EXCEPT ![c] = pushing]
    /\ pushing' = TRUE
    /\ pushPc' = [pushPc EXCEPT ![c] = "swapped"]
    /\ pushAfterStop' = [pushAfterStop EXCEPT
                            ![c] = \E d \in PushCalls : pusherSt[d] = "stopped"]
    /\ UNCHANGED <<pushRet, pusherSt>>
    /\ UNCHANGED notPush

\* A Push that gives the flag back when it refuses the call.
RootPushReturnClearing(c) ==
    /\ pushPc[c] = "swapped"
    /\ pushPc' = [pushPc EXCEPT ![c] = "returned"]
    /\ IF pushOld[c]
          THEN /\ pushRet' = [pushRet EXCEPT
                                 ![c] = [err |-> "already pushing", stop |-> 0]]
               /\ pushing' = FALSE
               /\ UNCHANGED pusherSt
          ELSE /\ pushRet' = [pushRet EXCEPT ![c] = [err |-> "nil", stop |-> c]]
               /\ pusherSt' = [pusherSt EXCEPT ![c] = "running"]
               /\ UNCHANGED pushing
    /\ UNCHANGED <<pushOld, pushAfterStop>>
    /\ UNCHANGED notPush

\* The rest of Push: the error return, or newPusher, go pusher.Start() and
\* the return of pusher.Stop.  The stop handle is named by the call that
\* created the pusher; 0 is the nil handle.
RootPushReturn(c) ==
    /\ pushPc[c] = "swapped"
    /\ pushPc' = [pushPc EXCEPT ![c] = "returned"]
    /\ IF pushOld[c]
          THEN /\ pushRet' = [pushRet EXCEPT
                                 ![c] = [err |-> "already pushing", stop |-> 0]]
               /\ UNCHANGED pusherSt
          ELSE /\ pushRet' = [pushRet EXCEPT ![c] = [err |-> "nil", stop |-> c]]
               /\ pusherSt' = [pusherSt EXCEPT ![c] = "running"]
    /\ UNCHANGED <<pushing, pushOld, pushAfterStop>>
    /\ UNCHANGED notPush

\* The stop function a successful Push returned: ends the push loop and
\* returns.  It holds the pusher only, not the Root, and may be called again.
PusherStop(c) ==
    /\ pushPc[c] = "returned"
    /\ pushRet[c].stop # 0
    /\ pusherSt[pushRet[c].stop] \in {"running", "stopped"}
    /\ pusherSt' = [pusherSt EXCEPT ![pushRet[c].stop] = "stopped"]
    /\ UNCHANGED <<pushing, pushPc, pushOld, pushRet, pushAfterStop>>
    /\ UNCHANGED notPush

NextPush ==
    \/ \E c \in PushCalls : RootPushSwap(c)
    \/ \E c \in PushCalls : RootPushReturn(c)
    \/ \E c \in PushCalls : PusherStop(c)

----------------------------------------------------------------------------
(* Counter *)

\* The largest value of the cell.  The code's cell is an int64; the model
\* keeps two's-complement wrap-around at a width TLC can enumerate.
MaxInt64 == 7

MinInt64 == -MaxInt64 - 1

Int64 == MinInt64..MaxInt64

\* Two's-complement wrap of an exact sum into the cell's range.
Wrap(x) == ((x - MinInt64) % (2 * (MaxInt64 + 1))) + MinInt64

\* atomic.Int64.Add: the new value of the cell.
AtomicAdd(v, n) == Wrap(v + n)

NoCall == [op |-> "none", n |-> 0, pre |-> 0, post |-> 0, ret |-> 0]

\* newCounter: a zero cell.
InitCounter ==
    /\ ctrVal = 0
    /\ ctrLast = NoCall
    /\ loadPrev = 0
    /\ loadLast = 0

\* An Add without the n <= 0 test.
CounterAddUnguarded(v, n) == AtomicAdd(v, n)

\* Counter.Add on a cell holding v: the cell's new value, which is also the
\* value returned (Load when n <= 0, the atomic Add's result otherwise).
CounterAddValue(v, n) == IF n <= 0 THEN v ELSE AtomicAdd(v, n)

CounterAdd(n) ==
    /\ ctrVal' = CounterAddValue(ctrVal, n)
    /\ ctrLast' = [op |-> "Add", n |-> n, pre |-> ctrVal,
                   post |-> ctrVal', ret |-> ctrVal']
    /\ UNCHANGED <<loadPrev, loadLast>>
    /\ UNCHANGED notCounter

\* Counter.Inc: c.val.Inc(), an atomic add of one.
CounterInc ==
    /\ ctrVal' = AtomicAdd(ctrVal, 1)
    /\ ctrLast' = [op |-> "Inc", n |-> 1, pre |-> ctrVal,
                   post |-> ctrVal', ret |-> ctrVal']
    /\ UNCHANGED <<loadPrev, loadLast>>
    /\ UNCHANGED notCounter

\* Counter.Load; loadPrev and loadLast keep the last two values returned.
CounterLoad ==
    /\ loadPrev' = loadLast
    /\ loadLast' = ctrVal
    /\ ctrLast' = [op |-> "Load", n |-> 0, pre |-> ctrVal,
                   post |-> ctrVal, ret |-> ctrVal]
    /\ UNCHANGED ctrVal
    /\ UNCHANGED notCounter

NextCounter ==
    \/ \E n \in Int64 : CounterAdd(n)
    \/ CounterInc
    \/ CounterLoad

----------------------------------------------------------------------------
(* Gauge *)

\* atomic.Int64.Sub: the new value of the cell.
AtomicSub(v, n) == Wrap(v - n)

\* A compare-and-swap that stores without comparing.
AtomicCASNoCompare(v, old, new) == [ok |-> TRUE, val |-> new]

\* atomic.Int64.CAS: whether the swap was made and the cell's new value.
AtomicCAS(v, old, new) ==
    IF v = old THEN [ok |-> TRUE, val |-> new] ELSE [ok |-> FALSE, val |-> v]

\* The arguments the Gauge's methods are called with.
GaugeArgs == {MinInt64, -1, 0, 1, MaxInt64}

NoGaugeCall ==
    [op |-> "none", n |-> 0, old |-> 0, pre |-> 0, ret |-> 0, ok |-> FALSE]

\* newGauge: a zero cell.
InitGauge ==
    /\ gaugeVal = 0
    /\ gaugeLast = NoGaugeCall

\* What is remembered of a call that returned an int64 or nothing.
GaugeReturns(op, n, ret) ==
    gaugeLast' = [op |-> op, n |-> n, old |-> 0, pre |-> gaugeVal,
                  ret |-> ret, ok |-> FALSE]

\* Gauge.Add: g.val.Add(n).
GaugeAdd(op, n) ==
    /\ gaugeVal' = AtomicAdd(gaugeVal, n)
    /\ GaugeReturns(op, n, gaugeVal')
    /\ UNCHANGED notGauge

\* Gauge.Sub: g.val.Sub(n).
GaugeSub(op, n) ==
    /\ gaugeVal' = AtomicSub(gaugeVal, n)
    /\ GaugeReturns(op, n, gaugeVal')
    /\ UNCHANGED notGauge

\* Gauge.Inc: g.Add(1).
GaugeInc == GaugeAdd("Inc", 1)

\* Gauge.Dec: g.Sub(1).
GaugeDec == GaugeSub("Dec", 1)

\* Gauge.Swap: g.val.Swap(n) stores n and returns what the cell held.
GaugeSwap(n) ==
    /\ gaugeVal' = n
    /\ GaugeReturns("Swap", n, gaugeVal)
    /\ UNCHANGED notGauge

\* Gauge.CAS: g.val.CAS(old, new).
GaugeCAS(old, new) ==
    /\ gaugeVal' = AtomicCAS(gaugeVal, old, new).val
    /\ gaugeLast' = [op |-> "CAS", n |-> new, old |-> old, pre |-> gaugeVal,
                     ret |-> 0, ok |-> AtomicCAS(gaugeVal, old, new).ok]
    /\ UNCHANGED notGauge

\* Gauge.Store: g.val.Store(n); nothing is returned.
GaugeStore(n) ==
    /\ gaugeVal' = n
    /\ GaugeReturns("Store", n, 0)
    /\ UNCHANGED notGauge

\* Gauge.Load: g.val.Load().
GaugeLoad ==
    /\ GaugeReturns("Load", 0, gaugeVal)
    /\ UNCHANGED gaugeVal
    /\ UNCHANGED notGauge

NextGauge ==
    \/ \E n \in GaugeArgs : GaugeAdd("Add", n)
    \/ \E n \in GaugeArgs : GaugeSub("Sub", n)
    \/ GaugeInc
    \/ GaugeDec
    \/ \E n \in GaugeArgs : GaugeSwap(n)
    \/ \E old \in GaugeArgs \cup {gaugeVal} : \E new \in GaugeArgs :
           GaugeCAS(old, new)
    \/ \E n \in GaugeArgs : GaugeStore(n)
    \/ GaugeLoad

----------------------------------------------------------------------------
(* Strings: a string is a sequence of one-character strings *)

\* The byte of each character the model uses.
Code(c) ==
    CASE c = "!" -> 33 [] c = "$" -> 36 [] c = "&" -> 38 [] c = "A" -> 65
      [] c = "_" -> 95 [] c = "b" -> 98 [] c = "c" -> 99 [] c = "f" -> 102
      [] c = "h" -> 104 [] c = "k" -> 107 [] c = "q" -> 113 [] c = "z" -> 122

\* Go's string comparison s < t: bytewise lexicographic.
RECURSIVE StrLess(_, _)
StrLess(s, t) ==
    IF t = <<>> THEN FALSE
    ELSE IF s = <<>> THEN TRUE
    ELSE IF Code(Head(s)) # Code(Head(t)) THEN Code(Head(s)) < Code(Head(t))
    ELSE StrLess(Tail(s), Tail(t))

\* sort.Strings applied to the distinct strings of S.
RECURSIVE SortStrings(_)
SortStrings(S) ==
    IF S = {} THEN <<>>
    ELSE LET m == CHOOSE x \in S : \A y \in S : x = y \/ StrLess(x, y)
         IN  <<m>> \o SortStrings(S \ {m})

\* A character of [A-Za-z0-9_].
IsNameChar(c) ==
    LET n == Code(c)
    IN  \/ n = 95
        \/ n >= 48 /\ n <= 57
        \/ n >= 65 /\ n <= 90
        \/ n >= 97 /\ n <= 122

\* Scrubbing: every character outside [A-Za-z0-9_] becomes "_".
scrub(s) ==
    IF s = <<>> THEN <<>>
    ELSE [i \in 1..Len(s) |-> IF IsNameChar(s[i]) THEN s[i] ELSE "_"]

scrubName(s) == scrub(s)

scrubLabelValue(s) == scrub(s)

\* The digester: an accumulator of ordered fragments.  A digest is kept as
\* the sequence of the fragments added, each with its prefix.
newDigester == <<>>

digesterAdd(d, prefix, s) == Append(d, prefix \o s)

----------------------------------------------------------------------------
(* Metadata and validation *)

NoMeta == [Name |-> <<>>]

EmptyLabels == <<>>

\* A validate that asks for a name only.
validateNameOnly(o) ==
    IF Len(o.Name) = 0 THEN "all metrics must have a name" ELSE "nil"

\* opts.go, Opts.validate
validate(o) ==
    IF Len(o.Name) = 0 THEN "all metrics must have a name"
    ELSE IF o.Help = <<>> THEN "metric help must not be empty"
    ELSE "nil"

validateScalar(o) ==
    IF validate(o) # "nil" THEN validate(o)
    ELSE IF Len(o.VariableLabels) > 0
         THEN "only vectors may have variable labels"
    ELSE "nil"

validateVector(o) ==
    IF validate(o) # "nil" THEN validate(o)
    ELSE IF Len(o.VariableLabels) = 0 THEN "vectors must have variable labels"
    ELSE "nil"

\* HistogramOpts.validateLatencies: prev starts at math.MinInt64.
validateLatencies(ho) ==
    IF ho.Unit < 1 THEN "duration unit must be positive"
    ELSE IF Len(ho.Buckets) = 0 THEN "must specify some buckets"
    ELSE IF \E i \in 1..Len(ho.Buckets) :
                ho.Buckets[i] <= (IF i = 1 THEN MinInt64 ELSE ho.Buckets[i - 1])
         THEN "bucket upper bounds must be sorted in increasing order"
    ELSE "nil"

\* The longest bucket list validated.
MaxBuckets == 3

\* The bounds the lists are made of: the two ends of int64 and its middle.
BucketBounds == {MinInt64, -1, 0, 1, MaxInt64}

BucketLists == UNION {[1..n -> BucketBounds] : n \in 0..MaxBuckets}

Units == {-1, 0, 1, 2}

NoLatencies == [called |-> FALSE, Unit |-> 0, Buckets |-> <<>>, err |-> "nil"]

InitOpts == latLast = NoLatencies

\* The histogram-specific check NewHistogram and NewHistogramVector run
\* first, on its own.
HistogramValidateLatencies(unit, buckets) ==
    /\ latLast' = [called |-> TRUE, Unit |-> unit, Buckets |-> buckets,
                   err |-> validateLatencies([Unit |-> unit, Buckets |-> buckets])]
    /\ UNCHANGED notOpts

NextOpts ==
    \E unit \in Units : \E buckets \in BucketLists :
        HistogramValidateLatencies(unit, buckets)

ScalarKinds == {"Counter", "Gauge", "Histogram"}

VectorKinds == {"CounterVector", "GaugeVector", "HistogramVector"}

Kinds == ScalarKinds \cup VectorKinds

\* The validation each Scope.New* runs for its kind: the histogram kinds
\* check the latencies first.
validateFor(kind, o) ==
    IF kind \in {"Histogram", "HistogramVector"} /\ validateLatencies(o) # "nil"
        THEN validateLatencies(o)
    ELSE IF kind \in ScalarKinds THEN validateScalar(o)
    ELSE validateVector(o)

\* The digester's add, once per string of ss.
RECURSIVE digesterAddAll(_, _, _)
digesterAddAll(d, prefix, ss) ==
    IF ss = <<>> THEN d
    ELSE digesterAddAll(digesterAdd(d, prefix, Head(ss)), prefix, Tail(ss))

\* makeDims: the name, the constant names as given, the sorted variable
\* names each behind a "$".
makeDims(name, constNames, sortedVarNames) ==
    digesterAddAll(
        digesterAddAll(digesterAdd(newDigester, <<>>, name), <<>>, constNames),
        <<"$">>, sortedVarNames)

\* A loop over the constant names that never finds a name in the set.
constNameSeenNever(scrubbedNames, i) == FALSE

\* The test of the loop over the constant names: the scrubbed name is in
\* constNameSet already, an earlier name having scrubbed to it.
constNameSeen(scrubbedNames, i) ==
    \E j \in 1..(i - 1) : scrubbedNames[j] = scrubbedNames[i]

\* A loop over the variable names that looks for them in varNameSet only.
varNameRejectedAmongVars(scrubbedVar, constNameSet, i) ==
    \E j \in 1..(i - 1) : scrubbedVar[j] = scrubbedVar[i]

\* The two tests of the loop over the variable names: the scrubbed name is
\* in varNameSet already, or it is in constNameSet.
varNameRejected(scrubbedVar, constNameSet, i) ==
    \/ \E j \in 1..(i - 1) : scrubbedVar[j] = scrubbedVar[i]
    \/ scrubbedVar[i] \in constNameSet

\* newMetadata: the constant names are sorted as supplied and scrubbed
\* afterwards; the variable names are scrubbed and then sorted.
newMetadata(o) ==
    LET sortedConstNames == SortStrings(DOMAIN o.Labels)
        nC == Len(sortedConstNames)
        sortedScrubbedConstNames ==
            [i \in 1..nC |-> scrubName(sortedConstNames[i])]
        sortedScrubbedConstVals ==
            [i \in 1..nC |-> scrubLabelValue(o.Labels[sortedConstNames[i]])]
        constDup == \E i \in 1..nC : constNameSeen(sortedScrubbedConstNames, i)
        constNameSet == {sortedScrubbedConstNames[i] : i \in 1..nC}
        nV == Len(o.VariableLabels)
        scrubbedVar == [i \in 1..nV |-> scrubName(o.VariableLabels[i])]
        varDupAt(i) == \E j \in 1..(i - 1) : scrubbedVar[j] = scrubbedVar[i]
        bad == {i \in 1..nV : varNameRejected(scrubbedVar, constNameSet, i)}
        firstBad == CHOOSE i \in bad : \A j \in bad : i <= j
        sortedScrubbedVarNames == SortStrings({scrubbedVar[i] : i \in 1..nV})
        pairs == [i \in 1..nC |-> [Name |-> sortedScrubbedConstNames[i],
                                   Value |-> sortedScrubbedConstVals[i]]]
        scrubbedName == scrubName(o.Name)
    IN  IF constDup
            THEN [err |-> "duplicate constant label name", meta |-> NoMeta]
        ELSE IF bad # {}
            THEN [err |-> IF varDupAt(firstBad)
                             THEN "duplicate variable label name"
                             ELSE "variable label name is also a constant label name",
                  meta |-> NoMeta]
        ELSE [err |-> "nil",
              meta |-> [Name |-> scrubbedName,
                        Help |-> o.Help,
                        Dims |-> makeDims(scrubbedName, sortedScrubbedConstNames,
                                          sortedScrubbedVarNames),
                        DisablePush |-> o.DisablePush,
                        constPairs |-> pairs,
                        variableLabelNames |-> o.VariableLabels]]

\* metadata.writeID: the name, then each constant pair's name and value.
RECURSIVE writePairs(_, _)
writePairs(d, pairs) ==
    IF pairs = <<>> THEN d
    ELSE writePairs(digesterAdd(digesterAdd(d, <<>>, Head(pairs).Name),
                                <<>>, Head(pairs).Value),
                    Tail(pairs))

writeID(m) == writePairs(digesterAdd(newDigester, <<>>, m.Name), m.constPairs)

\* Scope.addConstLabels: the Scope's labels, overridden by the spec's own.
addConstLabels(constLabels, spec) ==
    IF DOMAIN constLabels = {} THEN spec
    ELSE [spec EXCEPT !.Labels =
              [k \in DOMAIN constLabels \cup DOMAIN spec.Labels |->
                  IF k \in DOMAIN spec.Labels THEN spec.Labels[k]
                  ELSE constLabels[k]]]

----------------------------------------------------------------------------
(* coreRegistry and Scope *)

\* Metrics the registry may hold over a run of the creation calls.
MaxMetrics == 2

\* Goroutines that call register concurrently, one call each.
MaxProcs == 3

Procs == 1..MaxProcs

NoMetric == [kind |-> "none", meta |-> NoMeta]

NoLast ==
    [called |-> FALSE, err |-> "nil", m |-> NoMetric, ret |-> NoMetric,
     before |-> <<>>]

\* A nil *Scope.
NilScope == [isNil |-> TRUE, constLabels |-> EmptyLabels]

\* newScope: a Scope holding the labels (and the core, of which there is one).
newScope(labels) == [isNil |-> FALSE, constLabels |-> labels]

\* newCoreRegistry: empty maps, an empty list, an unlocked mutex.
InitRegistry ==
    /\ regMu = 0
    /\ dimsByName = <<>>
    /\ ids = {}
    /\ metrics = <<>>
    /\ regPc = [p \in Procs |-> "idle"]
    /\ regArg = [p \in Procs |-> NoMetric]
    /\ regRet = [p \in Procs |-> "pending"]
    /\ regLast = NoLast

\* A register that does not look at the identities already recorded.
registerErrorNoIds(meta) ==
    IF meta.Name \in DOMAIN dimsByName /\ dimsByName[meta.Name] # meta.Dims
        THEN "different label names"
    ELSE "nil"

\* A register that does not compare the dimensions recorded for the name.
registerErrorNoDims(meta) ==
    IF writeID(meta) \in ids THEN "same constant label names and values"
    ELSE "nil"

\* The two checks register makes under the lock.
registerError(meta) ==
    IF meta.Name \in DOMAIN dimsByName /\ dimsByName[meta.Name] # meta.Dims
        THEN "different label names"
    ELSE IF writeID(meta) \in ids THEN "same constant label names and values"
    ELSE "nil"

\* What register records when both checks pass.
registerCommit(m) ==
    /\ dimsByName' = [n \in DOMAIN dimsByName \cup {m.meta.Name} |->
                         IF n = m.meta.Name THEN m.meta.Dims ELSE dimsByName[n]]
    /\ ids' = ids \cup {writeID(m.meta)}
    /\ metrics' = Append(metrics, m)

\* A mutex that never makes a caller wait.
CanLockAlways(mu) == TRUE

\* sync.RWMutex.Lock returns only while nobody holds the lock.
CanLock(mu) == mu = 0

\* The metric a Scope.New* call constructs from validated options.
newMetric(kind, o) == [kind |-> kind, meta |-> newMetadata(o).meta]

\* A creation call without the test for a nil Scope.
ScopeNewNoNilTest(kind, s, spec) ==
    LET o == addConstLabels(s.constLabels, spec)
        verr == validateFor(kind, o)
        merr == newMetadata(o).err
        m == newMetric(kind, o)
        err == IF verr # "nil" THEN verr
               ELSE IF merr # "nil" THEN merr
               ELSE registerError(m.meta)
    IN  /\ Len(metrics) < MaxMetrics
        /\ CanLock(regMu)
        /\ IF err = "nil" THEN registerCommit(m) ELSE UNCHANGED coreVars
        /\ regLast' = [called |-> TRUE, err |-> err,
                       m |-> IF verr = "nil" /\ merr = "nil" THEN m ELSE NoMetric,
                       ret |-> IF err = "nil" THEN m ELSE NoMetric,
                       before |-> metrics]
        /\ UNCHANGED <<regMu, regPc, regArg, regRet>>

\* A creation call whose register records the metric before it checks.
ScopeNewCallRecordsFirst(kind, s, spec) ==
    LET o == addConstLabels(s.constLabels, spec)
        verr == validateFor(kind, o)
        merr == newMetadata(o).err
        m == newMetric(kind, o)
        err == IF s.isNil THEN "nil"
               ELSE IF verr # "nil" THEN verr
               ELSE IF merr # "nil" THEN merr
               ELSE registerError(m.meta)
        built == ~s.isNil /\ verr = "nil" /\ merr = "nil"
    IN  /\ Len(metrics) < MaxMetrics
        /\ CanLock(regMu)
        /\ IF built THEN registerCommit(m) ELSE UNCHANGED coreVars
        /\ regLast' = [called |-> TRUE, err |-> err,
                       m |-> IF built THEN m ELSE NoMetric,
                       ret |-> IF built /\ err = "nil" THEN m ELSE NoMetric,
                       before |-> metrics]
        /\ UNCHANGED <<regMu, regPc, regArg, regRet>>

\* Scope.NewCounter, NewGauge, NewHistogram and their vector forms, the
\* whole call: nil and nil on a nil Scope; otherwise merge the Scope's
\* labels, validate, build the metadata, construct, register (lock, check,
\* record, unlock).  ret is the metric returned, NoMetric for nil.
ScopeNewCall(kind, s, spec) ==
    LET o == addConstLabels(s.constLabels, spec)
        verr == validateFor(kind, o)
        merr == newMetadata(o).err
        m == newMetric(kind, o)
        err == IF s.isNil THEN "nil"
               ELSE IF verr # "nil" THEN verr
               ELSE IF merr # "nil" THEN merr
               ELSE registerError(m.meta)
        built == ~s.isNil /\ verr = "nil" /\ merr = "nil"
    IN  /\ Len(metrics) < MaxMetrics
        /\ CanLock(regMu)
        /\ IF built /\ err = "nil" THEN registerCommit(m) ELSE UNCHANGED coreVars
        /\ regLast' = [called |-> TRUE, err |-> err,
                       m |-> IF built THEN m ELSE NoMetric,
                       ret |-> IF built /\ err = "nil" THEN m ELSE NoMetric,
                       before |-> metrics]
        /\ UNCHANGED <<regMu, regPc, regArg, regRet>>

\* A creation call on a Scope of the given labels, as the registry sees it.
ScopeNew(kind, constLabels, spec) ==
    /\ ScopeNewCall(kind, newScope(constLabels), spec)
    /\ UNCHANGED notRegistry

\* register(m) is called: the id is digested before the lock is taken.
RegisterCall(p, m) ==
    /\ regPc[p] = "idle"
    /\ regPc' = [regPc EXCEPT ![p] = "call"]
    /\ regArg' = [regArg EXCEPT ![p] = m]
    /\ UNCHANGED <<regMu, coreVars, regRet, regLast>>
    /\ UNCHANGED notRegistry

\* c.Lock()
RegisterLock(p) ==
    /\ regPc[p] = "call"
    /\ CanLock(regMu)
    /\ regMu' = p
    /\ regPc' = [regPc EXCEPT ![p] = "locked"]
    /\ UNCHANGED <<coreVars, regArg, regRet, regLast>>
    /\ UNCHANGED notRegistry

\* The two checks; a failed one unlocks and returns its error.
RegisterCheck(p) ==
    /\ regPc[p] = "locked"
    /\ LET err == registerError(regArg[p].meta)
       IN  IF err = "nil"
              THEN /\ regPc' = [regPc EXCEPT ![p] = "checked"]
                   /\ UNCHANGED <<regMu, regRet>>
              ELSE /\ regPc' = [regPc EXCEPT ![p] = "done"]
                   /\ regRet' = [regRet EXCEPT ![p] = err]
                   /\ regMu' = 0
    /\ UNCHANGED <<coreVars, regArg, regLast>>
    /\ UNCHANGED notRegistry

\* c.dimsByName[*meta.Name] = meta.Dims
RegisterWriteDims(p) ==
    /\ regPc[p] = "checked"
    /\ dimsByName' = [n \in DOMAIN dimsByName \cup {regArg[p].meta.Name} |->
                         IF n = regArg[p].meta.Name THEN regArg[p].meta.Dims
                         ELSE dimsByName[n]]
    /\ regPc' = [regPc EXCEPT ![p] = "dims written"]
    /\ UNCHANGED <<regMu, ids, metrics, regArg, regRet, regLast>>
    /\ UNCHANGED notRegistry

\* c.ids[string(id.digest())] = struct{}{}
RegisterWriteIds(p) ==
    /\ regPc[p] = "dims written"
    /\ ids' = ids \cup {writeID(regArg[p].meta)}
    /\ regPc' = [regPc EXCEPT ![p] = "ids written"]
    /\ UNCHANGED <<regMu, dimsByName, metrics, regArg, regRet, regLast>>
    /\ UNCHANGED notRegistry

\* The append to c.metrics, c.Unlock() and the nil return.
RegisterCommit(p) ==
    /\ regPc[p] = "ids written"
    /\ metrics' = Append(metrics, regArg[p])
    /\ regMu' = 0
    /\ regPc' = [regPc EXCEPT ![p] = "done"]
    /\ regRet' = [regRet EXCEPT ![p] = "nil"]
    /\ UNCHANGED <<dimsByName, ids, regArg, regLast>>
    /\ UNCHANGED notRegistry

\* Nothing was seen yet.
InitSeen == regSeen = [dimsByName |-> <<>>, ids |-> {}, metrics |-> <<>>]

\* coreRegistry.snapshot beside the register calls: under the read lock,
\* which it gets while no register holds the lock, it finds the registry
\* as it is.
RegisterSnapshot ==
    /\ CanLock(regMu)
    /\ regSeen' = [dimsByName |-> dimsByName, ids |-> ids, metrics |-> metrics]
    /\ UNCHANGED notSeen

\* The options the creation calls are made with.
Opts(n, h, l, v) ==
    [Name |-> n, Help |-> h, Labels |-> l, VariableLabels |-> v,
     DisablePush |-> FALSE, Unit |-> 1, Buckets |-> <<1, 2>>]

MetricNames == {<<"&">>, <<"_">>}

LabelMaps ==
    {EmptyLabels,
     <<"A">> :> <<"z">>, <<"A">> :> <<"!">>, <<"A">> :> <<"_">>,
     <<"&">> :> <<"z">>, <<"_">> :> <<"z">>,
     (<<"&">> :> <<"z">>) @@ (<<"A">> :> <<"z">>),
     (<<"_">> :> <<"z">>) @@ (<<"A">> :> <<"z">>),
     (<<"_">> :> <<"!">>) @@ (<<"A">> :> <<"z">>),
     (<<"&">> :> <<"z">>) @@ (<<"_">> :> <<"z">>)}

VarLists == {<<>>, << <<"A">> >>, << <<"&">> >>}

Helps == {<<"h">>, <<"k">>, <<>>}

ScopeLabelSets == {EmptyLabels}

\* The creation calls made: a counter or counter vector for every name,
\* label map and variable list; every kind, help text and variable list on
\* the name "f"; the empty name.
CreateInputs ==
    {<<IF v = <<>> THEN "Counter" ELSE "CounterVector", Opts(n, <<"h">>, l, v)>> :
        n \in MetricNames, l \in LabelMaps, v \in VarLists}
    \cup
    {<<k, Opts(<<"f">>, h, EmptyLabels, v)>> :
        k \in Kinds, h \in Helps, v \in {<<>>, << <<"A">> >>}}
    \cup
    {<<k, Opts(<<>>, <<"h">>, EmptyLabels, v)>> :
        k \in {"Counter", "CounterVector"}, v \in {<<>>, << <<"A">> >>}}

\* The metrics handed to the concurrent register calls: two of one
\* identity, one of the same name with another label name, and one of
\* another name.
ConcMetrics ==
    {newMetric("Counter", Opts(<<"f">>, <<"h">>, EmptyLabels, <<>>)),
     newMetric("Gauge", Opts(<<"f">>, <<"k">>, EmptyLabels, <<>>)),
     newMetric("Counter", Opts(<<"f">>, <<"h">>, <<"A">> :> <<"z">>, <<>>)),
     newMetric("Counter", Opts(<<"k">>, <<"h">>, EmptyLabels, <<>>))}

NextRegistry ==
    \E in \in CreateInputs : \E sc \in ScopeLabelSets : ScopeNew(in[1], sc, in[2])

NextRegisterConc ==
    \/ \E p \in Procs : \E m \in ConcMetrics : RegisterCall(p, m)
    \/ \E p \in Procs : RegisterLock(p)
    \/ \E p \in Procs : RegisterCheck(p)
    \/ \E p \in Procs : RegisterWriteDims(p)
    \/ \E p \in Procs : RegisterWriteIds(p)
    \/ \E p \in Procs : RegisterCommit(p)
    \/ RegisterSnapshot

----------------------------------------------------------------------------
(* Scope: Labeled and the creation calls *)

\* Scopes obtained from Labeled over a run, the Root's own and nil apart.
MaxLabeled == 2

RootScope == newScope(EmptyLabels)

NoLabeled == [called |-> FALSE, parent |-> 0, ls |-> EmptyLabels, ret |-> NilScope]

NoCreate == [called |-> FALSE, scope |-> NilScope, kind |-> "none", spec |-> NoMeta]

\* New(): the Root's Scope holds no labels.  The second Scope is a nil
\* *Scope.  chains[i] lists the label maps applied on the way to scopes[i].
InitScope ==
    /\ scopes = <<RootScope, NilScope>>
    /\ chains = << <<>>, <<>> >>
    /\ labLast = NoLabeled
    /\ callIn = NoCreate

\* The values that may stand under the scrubbed name n after ranging over
\* ls: the last key written wins, and Go ranges over a map in any order.
LabeledValues(ls, n) ==
    {scrubLabelValue(ls[k]) : k \in {k \in DOMAIN ls : scrubName(k) = n}}

\* A Labeled that keeps the parent's value of a label the parent has.
LabeledKeepingParent(s, ls) ==
    IF s.isNil THEN {NilScope}
    ELSE LET names == {scrubName(k) : k \in DOMAIN ls}
             picks == {f \in [names -> UNION {LabeledValues(ls, n) : n \in names}] :
                          \A n \in names : f[n] \in LabeledValues(ls, n)}
         IN  {newScope([k \in DOMAIN s.constLabels \cup names |->
                           IF k \in DOMAIN s.constLabels THEN s.constLabels[k]
                           ELSE f[k]]) : f \in picks}

\* Scope.Labeled: the Scopes it may return.  nil on nil; otherwise a new
\* Scope with a new map, the parent's labels copied as they are and the new
\* ones written over them under their scrubbed names.
Labeled(s, ls) ==
    IF s.isNil THEN {NilScope}
    ELSE LET names == {scrubName(k) : k \in DOMAIN ls}
             picks == {f \in [names -> UNION {LabeledValues(ls, n) : n \in names}] :
                          \A n \in names : f[n] \in LabeledValues(ls, n)}
         IN  {newScope([k \in DOMAIN s.constLabels \cup names |->
                           IF k \in names THEN f[k] ELSE s.constLabels[k]]) :
                 f \in picks}

\* s.Labeled(ls) on the Scope scopes[i]; a Scope returned joins the list.
ScopeLabeled(i, ls) ==
    /\ i \in 1..Len(scopes)
    /\ Len(scopes) < MaxLabeled + 2
    /\ \E r \in Labeled(scopes[i], ls) :
           /\ labLast' = [called |-> TRUE, parent |-> i, ls |-> ls, ret |-> r]
           /\ IF r.isNil
                 THEN UNCHANGED <<scopes, chains>>
                 ELSE /\ scopes' = Append(scopes, r)
                      /\ chains' = Append(chains, Append(chains[i], ls))
    /\ UNCHANGED callIn
    /\ UNCHANGED regVars
    /\ UNCHANGED notScope

\* A creation call on the Scope s, its arguments remembered.
ScopeCreate(s, kind, spec) ==
    /\ ScopeNewCall(kind, s, spec)
    /\ callIn' = [called |-> TRUE, scope |-> s, kind |-> kind, spec |-> spec]
    /\ UNCHANGED <<scopes, chains, labLast>>
    /\ UNCHANGED notScope

\* The label maps Labeled is called with: a plain one, one whose value needs
\* scrubbing, one whose name does, and one whose two names scrub alike.
LabeledInputs ==
    {<<"A">> :> <<"q">>, <<"A">> :> <<"!">>, <<"&">> :> <<"q">>,
     (<<"&">> :> <<"q">>) @@ (<<"_">> :> <<"z">>)}

\* The metrics created from the Scopes that Labeled returned.
LabeledCreateInputs ==
    {<<"Counter", Opts(<<"f">>, <<"h">>, EmptyLabels, <<>>)>>,
     <<"GaugeVector", Opts(<<"f">>, <<"h">>, EmptyLabels, << <<"c">> >>)>>}

\* The variable labels a creation call of the kind passes validation with.
KindVars(kind) == IF kind \in ScalarKinds THEN <<>> ELSE << <<"c">> >>

ScopeA == newScope(<<"A">> :> <<"q">>)

ScopeU == newScope(<<"_">> :> <<"q">>)

\* Two names that scrub alike.
DupLabels == (<<"&">> :> <<"z">>) @@ (<<"_">> :> <<"q">>)

\* The creation calls made on Scopes: every kind with a name or none, a
\* help text or none, a variable label or none; every kind with two constant
\* names that scrub alike; vectors whose variable names scrub alike or scrub
\* to a constant name of the spec or of the Scope; a scalar and a vector
\* whose own label meets the Scope's.
ScopeCreateInputs ==
    {<<RootScope, k, Opts(n, h, EmptyLabels, v)>> :
        k \in Kinds, n \in {<<"f">>, <<>>}, h \in {<<"h">>, <<>>},
        v \in {<<>>, << <<"A">> >>}}
    \cup
    {<<RootScope, k, Opts(<<"f">>, <<"h">>, DupLabels, KindVars(k))>> : k \in Kinds}
    \cup
    {<<in[1], k, Opts(<<"f">>, <<"h">>, in[2], in[3])>> :
        k \in VectorKinds,
        in \in {<<RootScope, EmptyLabels, << <<"b", "!">>, <<"b", "&">> >> >>,
                <<RootScope, <<"_">> :> <<"z">>, << <<"&">> >> >>,
                <<ScopeA, EmptyLabels, << <<"A">> >> >>,
                <<ScopeU, EmptyLabels, << <<"&">> >> >>}}
    \cup
    {<<sc, k, Opts(<<"f">>, <<"h">>, l, KindVars(k))>> :
        sc \in {ScopeA, ScopeU}, k \in {"Counter", "GaugeVector"},
        l \in {<<"A">> :> <<"z">>, <<"&">> :> <<"z">>, <<"_">> :> <<"z">>,
               EmptyLabels}}

NextCreate ==
    \E in \in ScopeCreateInputs : ScopeCreate(in[1], in[2], in[3])

----------------------------------------------------------------------------
(* Methods called on nil metrics *)

\* The exported methods of the metric types.
MetricMethods ==
    ({"Counter"} \X {"Add", "Inc", "Load"})
    \cup ({"Gauge"} \X {"Add", "Sub", "Inc", "Dec", "Swap", "CAS", "Store", "Load"})
    \cup ({"Histogram"} \X {"Observe", "ObserveInt"})
    \cup (VectorKinds \X {"Get", "MustGet"})

\* The methods that begin by testing the receiver for nil and return their
\* zero result, or do nothing, when it is.
NilTested ==
    ({"Counter"} \X {"Add", "Inc", "Load"})
    \cup ({"Gauge"} \X {"Add", "Sub", "Swap", "CAS", "Store", "Load"})
    \cup (VectorKinds \X {"Get", "MustGet"})

\* The methods whose body reads nothing of the receiver.
ReceiverUnread == {"Histogram"} \X {"Observe", "ObserveInt"}

\* Gauge.Inc is g.Add(1) and Gauge.Dec is g.Sub(1); every other method
\* runs its own body.
BodyOf(kind, op) ==
    IF kind = "Gauge" /\ op = "Inc" THEN <<"Gauge", "Add">>
    ELSE IF kind = "Gauge" /\ op = "Dec" THEN <<"Gauge", "Sub">>
    ELSE <<kind, op>>

\* What a method returns for a nil receiver: the zero of its result type.
ZeroResult(kind, op) ==
    IF kind \in VectorKinds THEN "nil"
    ELSE IF op = "CAS" THEN "false"
    ELSE IF op \in {"Store", "Observe", "ObserveInt"} THEN "nothing"
    ELSE "0"

\* The outcome of a method on a nil receiver: the zero result when the body
\* that runs tests for nil or reads nothing, a nil dereference otherwise.
OnNil(kind, op) ==
    IF BodyOf(kind, op) \in NilTested \cup ReceiverUnread
        THEN [ret |-> ZeroResult(kind, op), panic |-> FALSE]
    ELSE [ret |-> "none", panic |-> TRUE]

NoNilCall ==
    [called |-> FALSE, kind |-> "none", op |-> "none", n |-> 0,
     out |-> [ret |-> "none", panic |-> FALSE]]

InitNil == nilLast = NoNilCall

\* A method is called, with the argument n where it takes one, on the metric
\* the last creation call returned from a nil Scope.
NilMetricCall(kind, op, n) ==
    /\ callIn.called /\ callIn.scope.isNil /\ callIn.kind = kind
    /\ regLast.ret = NoMetric
    /\ nilLast' = [called |-> TRUE, kind |-> kind, op |-> op, n |-> n,
                   out |-> OnNil(kind, op)]
    /\ UNCHANGED notNil

\* The options the creation calls on a nil Scope are made with, in order
\* and not.
NilCreateInputs ==
    {<<k, Opts(n, <<"h">>, l, v)>> :
        k \in Kinds, n \in {<<"f">>, <<>>}, l \in {EmptyLabels, DupLabels},
        v \in {<<>>, << <<"A">> >>}}

\* The arguments the methods are called with.
NilArgs == {MinInt64, 0, MaxInt64}

NextNil ==
    \/ \E i \in 1..Len(scopes) : \E ls \in LabeledInputs :
           scopes[i].isNil /\ ScopeLabeled(i, ls)
    \/ \E in \in NilCreateInputs : ScopeCreate(NilScope, in[1], in[2])
    \/ \E m \in MetricMethods : \E n \in NilArgs : NilMetricCall(m[1], m[2], n)

NextLabeled ==
    \/ \E i \in 1..(MaxLabeled + 2) : \E ls \in LabeledInputs : ScopeLabeled(i, ls)
    \/ \E i \in 1..Len(scopes) : \E in \in LabeledCreateInputs :
           ScopeCreate(scopes[i], in[1], in[2])

----------------------------------------------------------------------------
(* vector: CounterVector.Get and MustGet *)

\* Goroutines that call Get on the vector concurrently, again and again.
MaxGetters == 2

Getters == 1..MaxGetters

\* The longest argument list a Get is called with.
MaxArgs == 4

\* The strings a Get is called with, as names and as values.
GetStrings == {<<"b", "!">>, <<"b", "&">>, <<"c">>}

GetArgLists == UNION {[1..n -> GetStrings] : n \in 0..MaxArgs}

\* The vector's options: two variable labels, the first in need of scrubbing.
VectorOpts ==
    Opts(<<"f">>, <<"h">>, EmptyLabels, << <<"b", "!">>, <<"c">> >>)

\* What is remembered of the last Get or MustGet that returned.  Which of
\* the two it was is remembered for a failed validation only: past the
\* validation the two run the same code.
NoGet == [call |-> "none", err |-> "pending", m |-> 0, panic |-> FALSE]

\* newCounterVector: the metadata, an empty map, an unlocked RWMutex.
InitVector ==
    /\ vecMu = [w |-> 0, r |-> {}]
    /\ vecMetrics = <<>>
    /\ getPc = [p \in Getters |-> "idle"]
    /\ getArgs = [p \in Getters |-> <<>>]
    /\ lastGet = NoGet
    /\ served = <<>>
    /\ factoryCalls = <<>>

\* A validation that counts the arguments and does not compare the names.
ValidateCountOnly(m, variableLabels) ==
    IF Len(variableLabels) # 2 * Len(m.variableLabelNames)
        THEN "inconsistent label cardinality"
    ELSE "nil"

\* A validation that compares the names after scrubbing them.
ValidateScrubbedNames(m, variableLabels) ==
    IF Len(variableLabels) # 2 * Len(m.variableLabelNames)
        THEN "inconsistent label cardinality"
    ELSE IF \E i \in 1..Len(m.variableLabelNames) :
                scrubName(m.variableLabelNames[i])
                    # scrubName(variableLabels[2 * i - 1])
        THEN "variable label doesn't match vector definition"
    ELSE "nil"

\* metadata.ValidateVariableLabels
ValidateVariableLabels(m, variableLabels) ==
    IF Len(variableLabels) # 2 * Len(m.variableLabelNames)
        THEN "inconsistent label cardinality"
    ELSE IF \E i \in 1..Len(m.variableLabelNames) :
                m.variableLabelNames[i] # variableLabels[2 * i - 1]
        THEN "variable label doesn't match vector definition"
    ELSE "nil"

\* metadata.MergeLabels: the constant pairs and one pair per variable label,
\* name and value scrubbed, sorted by name.
MergeLabels(m, variableLabels) ==
    IF Len(variableLabels) = 0 THEN m.constPairs
    ELSE LET varPairs ==
                 [i \in 1..Len(m.variableLabelNames) |->
                     [Name |-> scrubName(m.variableLabelNames[i]),
                      Value |-> scrubLabelValue(variableLabels[2 * i])]]
             pairs == m.constPairs \o varPairs
             names == SortStrings({pairs[i].Name : i \in 1..Len(pairs)})
         IN  [k \in 1..Len(names) |->
                 LET i == CHOOSE i \in 1..Len(pairs) : pairs[i].Name = names[k]
                 IN  pairs[i]]

\* A map key digested from the values as the caller wrote them.
vectorKeyUnscrubbed(labels) ==
    digesterAddAll(newDigester, <<>>,
                   [i \in 1..(Len(labels) \div 2) |-> labels[2 * i]])

\* The map key getOrCreate digests: the scrubbed values, in order.
vectorKey(labels) ==
    digesterAddAll(newDigester, <<>>,
                   [i \in 1..(Len(labels) \div 2) |->
                       scrubLabelValue(labels[2 * i])])

vecMeta == newMetadata(VectorOpts).meta

\* The instances made so far; the next one made is distinct from them all.
InstancesMade ==
    LET Count[K \in SUBSET DOMAIN factoryCalls] ==
            IF K = {} THEN 0
            ELSE LET k == CHOOSE k \in K : TRUE
                 IN  factoryCalls[k] + Count[K \ {k}]
    IN  Count[DOMAIN factoryCalls]

\* newDynamicCounter: a new Counter with the merged labels and a zero cell.
newDynamicCounter(m, variableLabels) ==
    [id |-> InstancesMade + 1,
     labelPairs |-> MergeLabels(m, variableLabels),
     val |-> 0]

Put(f, k, v) == [x \in DOMAIN f \cup {k} |-> IF x = k THEN v ELSE f[x]]

\* What a Get returns to its caller, and what is remembered of it.
GetReturns(key, m) ==
    /\ lastGet' = [call |-> "any", err |-> "nil", m |-> m.id, panic |-> FALSE]
    /\ served' = Put(served, key,
                     (IF key \in DOMAIN served THEN served[key] ELSE {})
                         \cup {m.id})

\* Get or MustGet is called: the labels are validated and, if they pass,
\* digested and the read lock is taken.  A failed validation returns the
\* error from Get and panics in MustGet.
VectorGet(p, must, labels) ==
    /\ getPc[p] = "idle"
    /\ LET err == ValidateVariableLabels(vecMeta, labels)
       IN  IF err # "nil"
              THEN /\ lastGet' = [call |-> IF must THEN "MustGet" ELSE "Get",
                                   err |-> err, m |-> 0, panic |-> must]
                   /\ UNCHANGED <<vecMu, getPc, getArgs>>
              ELSE /\ vecMu.w = 0
                   /\ vecMu' = [vecMu EXCEPT !.r = @ \cup {p}]
                   /\ getPc' = [getPc EXCEPT ![p] = "rlocked"]
                   /\ getArgs' = [getArgs EXCEPT ![p] = labels]
                   /\ UNCHANGED lastGet
    /\ UNCHANGED <<vecMetrics, served, factoryCalls>>
    /\ UNCHANGED notVector

\* The probe of the map under the read lock, RUnlock, and the return of a
\* metric that was found.
VectorProbe(p) ==
    /\ getPc[p] = "rlocked"
    /\ vecMu' = [vecMu EXCEPT !.r = @ \ {p}]
    /\ LET key == vectorKey(getArgs[p])
       IN  IF key \in DOMAIN vecMetrics
              THEN /\ GetReturns(key, vecMetrics[key])
                   /\ getPc' = [getPc EXCEPT ![p] = "idle"]
                   /\ getArgs' = [getArgs EXCEPT ![p] = <<>>]
              ELSE /\ getPc' = [getPc EXCEPT ![p] = "lock"]
                   /\ UNCHANGED <<lastGet, served, getArgs>>
    /\ UNCHANGED <<vecMetrics, factoryCalls>>
    /\ UNCHANGED notVector

\* vec.metricsMu.Lock()
VectorLock(p) ==
    /\ getPc[p] = "lock"
    /\ vecMu.w = 0 /\ vecMu.r = {}
    /\ vecMu' = [vecMu EXCEPT !.w = p]
    /\ getPc' = [getPc EXCEPT ![p] = "locked"]
    /\ UNCHANGED <<vecMetrics, getArgs, lastGet, served, factoryCalls>>
    /\ UNCHANGED notVector

\* A newValue that creates without looking at the map again.
newValueNoRecheck(p) ==
    LET key == vectorKey(getArgs[p])
        m == newDynamicCounter(vecMeta, getArgs[p])
    IN  /\ vecMetrics' = Put(vecMetrics, key, m)
        /\ factoryCalls' = Put(factoryCalls, key,
                               (IF key \in DOMAIN factoryCalls
                                   THEN factoryCalls[key] ELSE 0) + 1)
        /\ GetReturns(key, m)

\* vector.newValue under the write lock: the second look at the map, and
\* the factory and the insertion if the key is still missing.
newValue(p) ==
    LET key == vectorKey(getArgs[p])
        m == newDynamicCounter(vecMeta, getArgs[p])
    IN  IF key \in DOMAIN vecMetrics
           THEN /\ GetReturns(key, vecMetrics[key])
                /\ UNCHANGED <<vecMetrics, factoryCalls>>
           ELSE /\ vecMetrics' = Put(vecMetrics, key, m)
                /\ factoryCalls' = Put(factoryCalls, key,
                                       (IF key \in DOMAIN factoryCalls
                                           THEN factoryCalls[key] ELSE 0) + 1)
                /\ GetReturns(key, m)

\* newValue, Unlock and the return.
VectorNewValue(p) ==
    /\ getPc[p] = "locked"
    /\ newValue(p)
    /\ vecMu' = [vecMu EXCEPT !.w = 0]
    /\ getPc' = [getPc EXCEPT ![p] = "idle"]
    /\ getArgs' = [getArgs EXCEPT ![p] = <<>>]
    /\ UNCHANGED notVector

NextVector ==
    \/ \E p \in Getters : \E must \in BOOLEAN : \E labels \in GetArgLists :
           VectorGet(p, must, labels)
    \/ \E p \in Getters : VectorProbe(p)
    \/ \E p \in Getters : VectorLock(p)
    \/ \E p \in Getters : VectorNewValue(p)

----------------------------------------------------------------------------
(* Snapshot: the values of the registered metrics and the snapshot of them *)

\* The most increments made on the metrics of the registry, all together.
MaxIncs == 2

\* The most Snapshots taken in a row with nothing done between them.
MaxSnapshots == 2

\* The key of the one value a scalar metric holds.
NoKey == <<>>

NoSnapshot == [Counters |-> <<>>, Gauges |-> <<>>, Histograms |-> <<>>]

\* No value was written, no vector entry made, no Snapshot taken.
InitSnapshot ==
    /\ cells = <<>>
    /\ incs = <<>>
    /\ snapLast = NoSnapshot
    /\ snapLen = 0
    /\ snapRun = 0

\* The value the i-th registered metric holds under the key.  A scalar's
\* value is made with the metric (newValue: the constant pairs, zero) and is
\* kept in cells from its first write on; a vector's values are made by Get.
Cell(i, key) ==
    IF <<i, key>> \in DOMAIN cells THEN cells[<<i, key>>]
    ELSE [labelPairs |-> MergeLabels(metrics[i].meta, <<>>), val |-> 0]

\* The increments made so far: every value starts at zero and goes up by one.
IncsMade ==
    LET Sum[D \in SUBSET DOMAIN cells] ==
            IF D = {} THEN 0
            ELSE LET d == CHOOSE d \in D : TRUE
                 IN  cells[d].val + Sum[D \ {d}]
    IN  Sum[DOMAIN cells]

\* The keys of the i-th metric's map of values.
KeysOf(i) == {c[2] : c \in {d \in DOMAIN cells : d[1] = i}}

\* A value was touched: what the last Snapshot returned is of no use any
\* more and is forgotten.
SnapshotForgotten ==
    /\ snapLast' = NoSnapshot
    /\ snapLen' = 0
    /\ snapRun' = 0

\* Counter.Inc and Gauge.Inc on the i-th registered metric, a scalar.
MetricInc(i) ==
    /\ i \in 1..Len(metrics)
    /\ metrics[i].kind \in {"Counter", "Gauge"}
    /\ IncsMade < MaxIncs
    /\ cells' = Put(cells, <<i, NoKey>>,
                    [Cell(i, NoKey) EXCEPT !.val = AtomicAdd(@, 1)])
    /\ SnapshotForgotten
    /\ UNCHANGED incs
    /\ UNCHANGED notSnapshot

\* vec.MustGet(labels...).Inc() on the i-th registered metric, a counter or
\* gauge vector: the labels are validated (a failure panics and nothing
\* changes), the value under the key is looked up or made by the factory
\* (newDynamicValue) and put in the map, and it is incremented.
VectorGetInc(i, labels) ==
    /\ i \in 1..Len(metrics)
    /\ metrics[i].kind \in {"CounterVector", "GaugeVector"}
    /\ LET meta == metrics[i].meta
           key == vectorKey(labels)
           m == IF <<i, key>> \in DOMAIN cells THEN cells[<<i, key>>]
                ELSE [labelPairs |-> MergeLabels(meta, labels), val |-> 0]
       IN  IF ValidateVariableLabels(meta, labels) # "nil"
              THEN UNCHANGED snapVars
              ELSE /\ IncsMade < MaxIncs
                   /\ cells' = Put(cells, <<i, key>>,
                                   [m EXCEPT !.val = AtomicAdd(@, 1)])
                   /\ incs' = Put(incs, <<i, labels>>,
                                  (IF <<i, labels>> \in DOMAIN incs
                                      THEN incs[<<i, labels>>] ELSE 0) + 1)
                   /\ SnapshotForgotten
    /\ UNCHANGED notSnapshot

\* zip: the map of the pairs' names to their values.
zip(pairs) ==
    [n \in {pairs[i].Name : i \in 1..Len(pairs)} |->
        LET i == CHOOSE i \in 1..Len(pairs) :
                     /\ pairs[i].Name = n
                     /\ \A j \in 1..Len(pairs) : pairs[j].Name = n => j <= i
        IN  pairs[i].Value]

\* The pairs of a label map, by name.
LabelSeq(l) ==
    LET names == SortStrings(DOMAIN l)
    IN  [k \in 1..Len(names) |-> <<names[k], l[names[k]]>>]

\* Labels.less: the pairs of the two maps in name order are compared pair
\* by pair, name before value; a map that runs out first is the lesser.
RECURSIVE PairsLess(_, _)
PairsLess(a, b) ==
    IF b = <<>> THEN FALSE
    ELSE IF a = <<>> THEN TRUE
    ELSE IF Head(a)[1] # Head(b)[1] THEN StrLess(Head(a)[1], Head(b)[1])
    ELSE IF Head(a)[2] # Head(b)[2] THEN StrLess(Head(a)[2], Head(b)[2])
    ELSE PairsLess(Tail(a), Tail(b))

LabelsLess(l, o) == PairsLess(LabelSeq(l), LabelSeq(o))

\* SimpleSnapshot.less and HistogramSnapshot.less
snapshotLess(s, o) ==
    IF s.Name # o.Name THEN StrLess(s.Name, o.Name)
    ELSE LabelsLess(s.Labels, o.Labels)

\* The orders in which the elements of a set can be met.
Orderings(K) ==
    {f \in [1..Cardinality(K) -> K] :
        \A a, b \in 1..Cardinality(K) : a # b => f[a] # f[b]}

\* A slice left as it was filled.
sortSliceNot(slice) == {slice}

\* sort.Slice with the less of the entries: the sort is not stable, so any
\* arrangement of the slice in which no entry is less than one before it.
sortSlice(slice) ==
    {[k \in 1..Len(slice) |-> slice[pi[k]]] :
        pi \in {f \in Orderings(1..Len(slice)) :
                   \A a, b \in 1..Len(slice) :
                       a < b => ~snapshotLess(slice[f[b]], slice[f[a]])}}

\* Snapshot.sort
SnapshotSort(s) ==
    {[Counters |-> c, Gauges |-> g, Histograms |-> h] :
        c \in sortSlice(s.Counters), g \in sortSlice(s.Gauges),
        h \in sortSlice(s.Histograms)}

\* value.snapshot
valueSnapshot(i, key) ==
    [Name |-> metrics[i].meta.Name,
     Labels |-> zip(Cell(i, key).labelPairs),
     Value |-> Cell(i, key).val]

\* A vector's snapshot that stops after the first value of the map.
vectorSnapshotFirst(i) ==
    IF KeysOf(i) = {} THEN {<<>>}
    ELSE {<<valueSnapshot(i, k)>> : k \in KeysOf(i)}

\* vector.snapshot: one entry per value of the map, in the order the range
\* over the map meets them, which is any order.
vectorSnapshot(i) ==
    {[n \in 1..Cardinality(KeysOf(i)) |-> valueSnapshot(i, ks[n])] :
        ks \in Orderings(KeysOf(i))}

\* Histogram.snapshot of a histogram nothing was observed in.
histogramSnapshot(i) ==
    [Name |-> metrics[i].meta.Name,
     Labels |-> zip(Cell(i, NoKey).labelPairs),
     Values |-> <<>>]

\* Snapshot.add of the i-th registered metric: the snapshots it can leave.
SnapshotAdd(s, i) ==
    LET kind == metrics[i].kind
    IN  CASE kind = "Counter" ->
                 {[s EXCEPT !.Counters = Append(@, valueSnapshot(i, NoKey))]}
          [] kind = "Gauge" ->
                 {[s EXCEPT !.Gauges = Append(@, valueSnapshot(i, NoKey))]}
          [] kind = "Histogram" ->
                 {[s EXCEPT !.Histograms = Append(@, histogramSnapshot(i))]}
          [] kind = "CounterVector" ->
                 {[s EXCEPT !.Counters = @ \o v] : v \in vectorSnapshot(i)}
          [] kind = "GaugeVector" ->
                 {[s EXCEPT !.Gauges = @ \o v] : v \in vectorSnapshot(i)}
          [] kind = "HistogramVector" -> {s}

\* The loop of coreRegistry.snapshot from the i-th metric on.
RECURSIVE SnapshotAddFrom(_, _)
SnapshotAddFrom(S, i) ==
    IF i > Len(metrics) THEN S
    ELSE SnapshotAddFrom(UNION {SnapshotAdd(s, i) : s \in S}, i + 1)

\* coreRegistry.snapshot: every metric added in list order, then the sort.
coreRegistrySnapshot ==
    UNION {SnapshotSort(s) : s \in SnapshotAddFrom({NoSnapshot}, 1)}

\* No value was touched and nothing registered since the last Snapshot.
SnapshotCurrent == snapRun >= 1 /\ snapLen = Len(metrics)

\* Root.Snapshot, under the registry's read lock.
RootSnapshot ==
    /\ regMu = 0
    /\ SnapshotCurrent => snapRun < MaxSnapshots
    /\ \E s \in coreRegistrySnapshot : snapLast' = s
    /\ snapLen' = Len(metrics)
    /\ snapRun' = IF SnapshotCurrent THEN snapRun + 1 ELSE 1
    /\ UNCHANGED <<cells, incs>>
    /\ UNCHANGED notSnapshot

\* The metrics created: two counters of one name with two label values,
\* a gauge, a histogram, and vectors whose variable label needs scrubbing
\* and whose name sorts before the counters'.
SnapshotCreateInputs ==
    {<<"Counter", Opts(<<"f">>, <<"h">>, <<"A">> :> v, <<>>)>> :
        v \in {<<"z">>, <<"q">>}}
    \cup
    {<<k, Opts(<<"k">>, <<"h">>, EmptyLabels, <<>>)>> :
        k \in {"Gauge", "Histogram"}}
    \cup
    {<<k, Opts(<<"c">>, <<"h">>, <<"A">> :> <<"!">>, << <<"b", "!">> >>)>> :
        k \in VectorKinds}

\* The label lists Get is called with: two values that scrub alike, one
\* that needs no scrubbing.
SnapshotGetInputs ==
    {<<<<"b", "!">>, v>> : v \in {<<"b", "!">>, <<"b", "&">>, <<"c">>}}

NextSnapshot ==
    \/ \E in \in SnapshotCreateInputs :
           ScopeNew(in[1], RootScope.constLabels, in[2])
    \/ \E i \in 1..MaxMetrics : MetricInc(i)
    \/ \E i \in 1..MaxMetrics : \E labels \in SnapshotGetInputs :
           VectorGetInc(i, labels)
    \/ RootSnapshot

----------------------------------------------------------------------------
(* Histogram *)

\* The most observations made on the histogram.
MaxObservations == 3

\* The histogram's bucket upper bounds, in units, and its unit.
HistBuckets == <<0, 2>>

HistUnit == 2

\* The index of the implicit overflow bucket.
Overflow == Len(HistBuckets) + 1

\* Go's integer division, which truncates toward zero.
GoDiv(a, b) == IF a >= 0 THEN a \div b ELSE -((-a) \div b)

\* newHistogram: one zero counter per bound and one for the overflow.
InitHistogram ==
    /\ bucketCounts = [i \in 1..Overflow |-> 0]
    /\ histLast = [op |-> "none", arg |-> 0, value |-> 0, bucket |-> 0]
    /\ histObserved = <<>>

\* A search that stops at the first bound greater than the value.
bucketSearchStrict(n) ==
    LET above == {i \in 1..Len(HistBuckets) : HistBuckets[i] > n}
    IN  IF above = {} THEN Overflow
        ELSE CHOOSE i \in above : \A j \in above : i <= j

\* The binary search over the ascending bounds: the first bound that is
\* greater than or equal to the value, the overflow bucket if there is none.
bucketSearch(n) ==
    LET atLeast == {i \in 1..Len(HistBuckets) : HistBuckets[i] >= n}
    IN  IF atLeast = {} THEN Overflow
        ELSE CHOOSE i \in atLeast : \A j \in atLeast : i <= j

\* The atomic increment of the counter of the value's bucket.
bucketInc(op, arg, n) ==
    /\ Len(histObserved) < MaxObservations
    /\ bucketCounts' =
           [bucketCounts EXCEPT ![bucketSearch(n)] = AtomicAdd(@, 1)]
    /\ histLast' = [op |-> op, arg |-> arg, value |-> n,
                    bucket |-> bucketSearch(n)]
    /\ histObserved' = Append(histObserved, n)
    /\ UNCHANGED notHistogram

\* An IncBucket that counts in the bucket whose bound equals n and in the
\* overflow bucket when no bound does.
HistogramIncBucketExact(n) ==
    bucketInc("IncBucket", n,
              IF \E i \in 1..Len(HistBuckets) : HistBuckets[i] = n
                 THEN n ELSE MaxInt64)

\* Histogram.IncBucket(n): the bucket of n is incremented.
HistogramIncBucket(n) == bucketInc("IncBucket", n, n)

\* Histogram.Observe(d): the duration is converted to the histogram's unit
\* and the bucket of the result is incremented.
HistogramObserve(d) == bucketInc("Observe", d, GoDiv(d, HistUnit))

\* A view that reports each bucket's own count.
RECURSIVE perBucketFrom(_, _)
perBucketFrom(i, sum) ==
    IF i > Len(HistBuckets) THEN <<>>
    ELSE <<[UpperBound |-> HistBuckets[i],
            CumulativeCount |-> bucketCounts[i]]>>
         \o perBucketFrom(i + 1, sum)

\* The Prometheus-shaped view (Histogram.metric): a running sum over the
\* buckets of the bounds, and the count of all samples.
RECURSIVE cumulativeFrom(_, _)
cumulativeFrom(i, sum) ==
    IF i > Len(HistBuckets) THEN <<>>
    ELSE <<[UpperBound |-> HistBuckets[i],
            CumulativeCount |-> sum + bucketCounts[i]]>>
         \o cumulativeFrom(i + 1, sum + bucketCounts[i])

RECURSIVE sampleCountFrom(_)
sampleCountFrom(i) ==
    IF i > Overflow THEN 0 ELSE bucketCounts[i] + sampleCountFrom(i + 1)

histogramMetric ==
    [SampleCount |-> sampleCountFrom(1), Bucket |-> cumulativeFrom(1, 0)]

\* A flattened view that lists each bound once if its bucket counted.
RECURSIVE flattenOnceFrom(_)
flattenOnceFrom(i) ==
    IF i > Overflow THEN <<>>
    ELSE (IF bucketCounts[i] = 0 THEN <<>>
          ELSE <<IF i = Overflow THEN MaxInt64 ELSE HistBuckets[i]>>)
         \o flattenOnceFrom(i + 1)

\* The flattened view (HistogramSnapshot.Values): for each bucket in
\* ascending order, the overflow bucket last and as the largest int64, the
\* bucket's upper bound once per observation counted in it.
RECURSIVE flattenFrom(_)
flattenFrom(i) ==
    IF i > Overflow THEN <<>>
    ELSE [k \in 1..bucketCounts[i] |->
             IF i = Overflow THEN MaxInt64 ELSE HistBuckets[i]]
         \o flattenFrom(i + 1)

\* The durations observed and the values given to IncBucket: below the
\* first bound, on a bound, between bounds, above the last bound.
ObserveDurations == {MinInt64, -3, -1, 0, 1, 4, 5, 6, MaxInt64}

IncBucketValues == {MinInt64, -1, 0, 1, 2, 3, MaxInt64}

NextHistogram ==
    \/ \E d \in ObserveDurations : HistogramObserve(d)
    \/ \E n \in IncBucketValues : HistogramIncBucket(n)

----------------------------------------------------------------------------
(* The pusher: the background task that Root.Push starts *)

MaxPushMetrics == 2
MaxEntries == 1
MaxPushIncs == 2
MaxTicks == 2

PushSlots == 1..MaxPushMetrics
PushKeys == 1..MaxEntries

\* What the target has been asked for one cell: handle creations, Set
\* calls, and the total of the latest Set.
NoTargetCalls == [news |-> 0, sets |-> 0, last |-> 0]

\* Where the loop stood when the stop function was called.
NoStopCall == [loop |-> "none", at |-> <<1, 1>>]

InitPusher ==
    /\ pushMetrics = <<>>
    /\ pushCells = <<>>
    /\ pushLoop = "none"
    /\ pushAt = <<1, 1>>
    /\ pushStop = FALSE
    /\ pushStopPc = "idle"
    /\ pushStopSaw = NoStopCall
    /\ pushTicks = 0
    /\ pushTarget = [m \in PushSlots |-> [k \in PushKeys |-> NoTargetCalls]]

\* The increments made on all cells so far.
RECURSIVE PushCellsSum(_, _)
PushCellsSum(m, k) ==
    IF m > Len(pushCells) THEN 0
    ELSE IF k > Len(pushCells[m]) THEN PushCellsSum(m + 1, 1)
    ELSE pushCells[m][k] + PushCellsSum(m, k + 1)

\* A scalar counter or a counter vector is registered; a scalar has its one
\* cell from the start, a vector has no entry yet.
PusherRegister(disablePush, vector) ==
    /\ Len(pushMetrics) < MaxPushMetrics
    /\ pushMetrics' = Append(pushMetrics,
           [disablePush |-> disablePush, vector |-> vector,
            late |-> pushLoop # "none"])
    /\ pushCells' = Append(pushCells, IF vector THEN <<>> ELSE <<0>>)
    /\ UNCHANGED <<pushLoop, pushAt, pushStop, pushStopPc, pushStopSaw,
                   pushTicks, pushTarget>>
    /\ UNCHANGED notPusher

\* A vector gets a new entry.
PusherVectorGet(m) ==
    /\ m \in 1..Len(pushMetrics)
    /\ pushMetrics[m].vector
    /\ Len(pushCells[m]) < MaxEntries
    /\ pushCells' = [pushCells EXCEPT ![m] = Append(@, 0)]
    /\ UNCHANGED <<pushMetrics, pushLoop, pushAt, pushStop, pushStopPc,
                   pushStopSaw, pushTicks, pushTarget>>
    /\ UNCHANGED notPusher

\* Counter.Inc on one cell.
PusherInc(m, k) ==
    /\ m \in 1..Len(pushMetrics)
    /\ k \in 1..Len(pushCells[m])
    /\ PushCellsSum(1, 1) < MaxPushIncs
    /\ pushCells' = [pushCells EXCEPT ![m][k] = AtomicAdd(@, 1)]
    /\ UNCHANGED <<pushMetrics, pushLoop, pushAt, pushStop, pushStopPc,
                   pushStopSaw, pushTicks, pushTarget>>
    /\ UNCHANGED notPusher

\* Root.Push after a successful swap of the flag: newPusher and
\* go pusher.Start(); the loop waits for its first tick.
PusherStart ==
    /\ pushLoop = "none"
    /\ pushLoop' = "waiting"
    /\ UNCHANGED <<pushMetrics, pushCells, pushAt, pushStop, pushStopPc,
                   pushStopSaw, pushTicks, pushTarget>>
    /\ UNCHANGED notPusher

\* The loop wakes on a tick and starts to walk the registry.
PusherTick ==
    /\ pushLoop = "waiting"
    /\ ~pushStop
    /\ pushTicks < MaxTicks
    /\ pushLoop' = "pushing"
    /\ pushAt' = <<1, 1>>
    /\ pushTicks' = pushTicks + 1
    /\ UNCHANGED <<pushMetrics, pushCells, pushStop, pushStopPc,
                   pushStopSaw, pushTarget>>
    /\ UNCHANGED notPusher

\* A walk that leaves no metric out.
pushSkipsNone(m) == FALSE

\* A metric marked DisablePush is left out of the walk, a vector with all
\* its entries.
pushSkips(m) == pushMetrics[m].disablePush

\* The total since the latest Set.
pushedDelta(m, k) == pushCells[m][k] - pushTarget[m][k].last

\* What a handle is Set to: the cell's current cumulative total.
pushedTotal(m, k) == pushCells[m][k]

\* The target's record of one cell after a push: the handle is made at the
\* first push of the cell and reused afterwards, then Set is called.
pushCell(m, k) ==
    [news |-> IF pushTarget[m][k].news = 0 THEN 1 ELSE pushTarget[m][k].news,
     sets |-> pushTarget[m][k].sets + 1,
     last |-> pushedTotal(m, k)]

\* One step of the walk: the walk ends after the last metric, passes on at
\* a skipped metric or at the end of a metric's cells, and pushes a cell
\* otherwise.
PusherPushStep ==
    /\ pushLoop = "pushing"
    /\ LET m == pushAt[1]
           k == pushAt[2]
       IN  IF m > Len(pushMetrics)
           THEN /\ pushLoop' = "waiting"
                /\ UNCHANGED <<pushAt, pushTarget>>
           ELSE IF pushSkips(m) \/ k > Len(pushCells[m])
           THEN /\ pushAt' = <<m + 1, 1>>
                /\ UNCHANGED <<pushLoop, pushTarget>>
           ELSE /\ pushTarget' = [pushTarget EXCEPT ![m][k] = pushCell(m, k)]
                /\ pushAt' = <<m, k + 1>>
                /\ UNCHANGED pushLoop
    /\ UNCHANGED <<pushMetrics, pushCells, pushStop, pushStopPc,
                   pushStopSaw, pushTicks>>
    /\ UNCHANGED notPusher

\* The loop sees the stop signal at a tick boundary and ends.
PusherExit ==
    /\ pushLoop = "waiting"
    /\ pushStop
    /\ pushLoop' = "exited"
    /\ UNCHANGED <<pushMetrics, pushCells, pushAt, pushStop, pushStopPc,
                   pushStopSaw, pushTicks, pushTarget>>
    /\ UNCHANGED notPusher

\* The stop function is called: it signals the loop.
PusherStopCall ==
    /\ pushLoop # "none"
    /\ pushStopPc = "idle"
    /\ pushStop' = TRUE
    /\ pushStopPc' = "waiting"
    /\ pushStopSaw' = [loop |-> pushLoop, at |-> pushAt]
    /\ UNCHANGED <<pushMetrics, pushCells, pushLoop, pushAt, pushTicks,
                   pushTarget>>
    /\ UNCHANGED notPusher

\* A stop function that returns without waiting for the loop.
PusherStopReturnAtOnce ==
    /\ pushStopPc = "waiting"
    /\ pushStopPc' = "returned"
    /\ UNCHANGED <<pushMetrics, pushCells, pushLoop, pushAt, pushStop,
                   pushStopSaw, pushTicks, pushTarget>>
    /\ UNCHANGED notPusher

\* The stop function returns once the loop has ended.
PusherStopReturn ==
    /\ pushStopPc = "waiting"
    /\ pushLoop = "exited"
    /\ pushStopPc' = "returned"
    /\ UNCHANGED <<pushMetrics, pushCells, pushLoop, pushAt, pushStop,
                   pushStopSaw, pushTicks, pushTarget>>
    /\ UNCHANGED notPusher

NextPusher ==
    \/ \E d \in BOOLEAN, v \in BOOLEAN : PusherRegister(d, v)
    \/ \E m \in PushSlots : PusherVectorGet(m)
    \/ \E m \in PushSlots, k \in PushKeys : PusherInc(m, k)
    \/ PusherStart
    \/ PusherTick
    \/ PusherPushStep
    \/ PusherExit
    \/ PusherStopCall
    \/ PusherStopReturn

----------------------------------------------------------------------------
(* tallypush: the counter handle of the Tally target *)

MaxSets == 3

\* target.NewCounter: a handle whose last total is the zero value.
InitTally ==
    /\ tallyLast = 0
    /\ tallyIncs = <<>>
    /\ tallySets = <<>>

\* A handle that forwards the total itself.
counterDeltaTotal(total) == total

\* delta := total - c.last, in int64.
counterDelta(total) == Wrap(total - tallyLast)

\* counter.Set(total): the difference to the last total is forwarded to
\* the tally counter with Inc, and the total is remembered.
TallyCounterSet(total) ==
    /\ Len(tallySets) < MaxSets
    /\ tallyLast' = total
    /\ tallyIncs' = Append(tallyIncs, counterDelta(total))
    /\ tallySets' = Append(tallySets, total)
    /\ UNCHANGED notTally

NextTally == \E total \in Int64 : TallyCounterSet(total)

----------------------------------------------------------------------------
(* Counter.Add called by several goroutines on one counter *)

MaxAdders == 3

Adders == 1..MaxAdders

AddConcArgs == {0, 1, 2, MaxInt64}

InitAddConc ==
    /\ addVal = 0
    /\ addPc = [p \in Adders |-> "idle"]
    /\ addN = [p \in Adders |-> 0]
    /\ addRet = [p \in Adders |-> 0]

\* A goroutine calls c.Add(n).
AddConcCall(p, n) ==
    /\ addPc[p] = "idle"
    /\ addPc' = [addPc EXCEPT ![p] = "called"]
    /\ addN' = [addN EXCEPT ![p] = n]
    /\ UNCHANGED <<addVal, addRet>>
    /\ UNCHANGED notAddConc

\* The call's one access to the cell, c.val.Load() or c.val.Add(n), each
\* one atomic operation; its result is what the call returns.
AddConcAccess(p) ==
    /\ addPc[p] = "called"
    /\ addVal' = CounterAddValue(addVal, addN[p])
    /\ addRet' = [addRet EXCEPT ![p] = addVal']
    /\ addPc' = [addPc EXCEPT ![p] = "returned"]
    /\ UNCHANGED addN
    /\ UNCHANGED notAddConc

NextAddConc ==
    \/ \E p \in Adders, n \in AddConcArgs : AddConcCall(p, n)
    \/ \E p \in Adders : AddConcAccess(p)

----------------------------------------------------------------------------
(* The entries of a vector: the objects its factory makes *)

MaxEntryUpdates == 3

\* A counter vector and a histogram vector, and the keys Get is called with.
EntryVectors == {"CounterVector", "HistogramVector"}
EntryKeys == {"x", "y"}

\* The histogram vector's entries have one bound and the overflow bucket.
EntryBuckets == 1..2

\* A new object: a value of zero, bucket counters of zero.
NewEntry == [val |-> 0, counts |-> [b \in EntryBuckets |-> 0]]

\* No object exists and both vectors' maps are empty.
InitEntries ==
    /\ entHeap = <<>>
    /\ entMap = [v \in EntryVectors |-> <<>>]

\* The updates made on all objects so far.
RECURSIVE EntryUpdates(_)
EntryUpdates(a) ==
    IF a > Len(entHeap) THEN 0
    ELSE entHeap[a].val + entHeap[a].counts[1] + entHeap[a].counts[2]
         + EntryUpdates(a + 1)

\* A factory that hands out the first object again.
entryFactoryShared(heap) == 1

\* vec.factory: a new object, at an address of its own.
entryFactory(heap) == Len(heap) + 1

\* vector.newValue under the key: the object in the map if there is one,
\* else the factory's object, which is put in the map.
EntryGet(v, key) ==
    /\ key \notin DOMAIN entMap[v]
    /\ LET a == entryFactory(entHeap)
       IN  /\ entHeap' = IF a > Len(entHeap) THEN Append(entHeap, NewEntry)
                         ELSE entHeap
           /\ entMap' = [entMap EXCEPT ![v] = Put(@, key, a)]
    /\ UNCHANGED notEntries

\* Counter.Inc on the entry that Get returned for the key.
EntryInc(key) ==
    /\ key \in DOMAIN entMap["CounterVector"]
    /\ EntryUpdates(1) < MaxEntryUpdates
    /\ entHeap' = [entHeap EXCEPT ![entMap["CounterVector"][key]].val =
                       AtomicAdd(@, 1)]
    /\ UNCHANGED entMap
    /\ UNCHANGED notEntries

\* Histogram.Observe on the entry that Get returned for the key, counted
\* in bucket b.
EntryObserve(key, b) ==
    /\ key \in DOMAIN entMap["HistogramVector"]
    /\ EntryUpdates(1) < MaxEntryUpdates
    /\ entHeap' = [entHeap EXCEPT
                       ![entMap["HistogramVector"][key]].counts[b] =
                           AtomicAdd(@, 1)]
    /\ UNCHANGED entMap
    /\ UNCHANGED notEntries

NextEntries ==
    \/ \E v \in EntryVectors, key \in EntryKeys : EntryGet(v, key)
    \/ \E key \in EntryKeys : EntryInc(key)
    \/ \E key \in EntryKeys, b \in EntryBuckets : EntryObserve(key, b)

----------------------------------------------------------------------------
(* The two locks: the registry's and a vector's, and the calls that take them *)

MaxLockers == 3
MaxLockCalls == 4

Lockers == 1..MaxLockers

\* The keys getOrCreate is called with and the identities register is
\* called with.
LockKeys == {"x", "y"}
LockIds == {"f", "k"}

\* A sync.RWMutex: the readers that hold it, the writer that holds it (0 for
\* none) and the writers that have called Lock and wait for the readers.
FreeMutex == [r |-> {}, w |-> 0, pending |-> {}]

InitLocks ==
    /\ lkReg = FreeMutex
    /\ lkVec = FreeMutex
    /\ lkPc = [p \in Lockers |-> "idle"]
    /\ lkArg = [p \in Lockers |-> ""]
    /\ lkIds = {}
    /\ lkKeys = {}
    /\ lkCalls = 0

\* RLock returns while no writer holds the mutex or waits for it.
CanRLock(mu) == mu.w = 0 /\ mu.pending = {}
RLock(mu, p) == [mu EXCEPT !.r = @ \cup {p}]
RUnlock(mu, p) == [mu EXCEPT !.r = @ \ {p}]

\* Lock announces the writer, which keeps new readers out, and returns when
\* the readers have left and no other writer holds the mutex.
LockCalled(mu, p) == [mu EXCEPT !.pending = @ \cup {p}]
CanLockNow(mu, p) == p \in mu.pending /\ mu.r = {} /\ mu.w = 0
Lock(mu, p) == [mu EXCEPT !.w = p, !.pending = @ \ {p}]
Unlock(mu, p) == [mu EXCEPT !.w = 0]

\* An Unlock that is left out.
UnlockForgotten(mu, p) == mu

\* The c.Unlock() of register's two error returns.
registerErrorUnlock(mu, p) == Unlock(mu, p)

\* A call begins: register(m), snapshot() or getOrCreate(labels...); a
\* getOrCreate whose labels fail the validation returns at once.
LockerCall(p, op, arg) ==
    /\ lkPc[p] = "idle"
    /\ lkCalls < MaxLockCalls
    /\ lkCalls' = lkCalls + 1
    /\ lkArg' = [lkArg EXCEPT ![p] = arg]
    /\ lkPc' = [lkPc EXCEPT ![p] = IF op = "getOrCreate" /\ arg = ""
                                     THEN "idle" ELSE op]
    /\ UNCHANGED <<lkReg, lkVec, lkIds, lkKeys>>
    /\ UNCHANGED notLocks

\* register: c.Lock() is called.
LockerRegisterLock(p) ==
    /\ lkPc[p] = "register"
    /\ lkReg' = LockCalled(lkReg, p)
    /\ lkPc' = [lkPc EXCEPT ![p] = "register waits"]
    /\ UNCHANGED <<lkVec, lkArg, lkIds, lkKeys, lkCalls>>
    /\ UNCHANGED notLocks

\* register: c.Lock() returns.
LockerRegisterLocked(p) ==
    /\ lkPc[p] = "register waits"
    /\ CanLockNow(lkReg, p)
    /\ lkReg' = Lock(lkReg, p)
    /\ lkPc' = [lkPc EXCEPT ![p] = "register locked"]
    /\ UNCHANGED <<lkVec, lkArg, lkIds, lkKeys, lkCalls>>
    /\ UNCHANGED notLocks

\* register: the checks under the lock; an error unlocks and returns,
\* success records the metric, unlocks and returns.
LockerRegisterReturn(p) ==
    /\ lkPc[p] = "register locked"
    /\ IF lkArg[p] \in lkIds
          THEN /\ lkReg' = registerErrorUnlock(lkReg, p)
               /\ UNCHANGED lkIds
          ELSE /\ lkReg' = Unlock(lkReg, p)
               /\ lkIds' = lkIds \cup {lkArg[p]}
    /\ lkPc' = [lkPc EXCEPT ![p] = "idle"]
    /\ UNCHANGED <<lkVec, lkArg, lkKeys, lkCalls>>
    /\ UNCHANGED notLocks

\* snapshot: c.RLock().
LockerSnapshotRLock(p) ==
    /\ lkPc[p] = "snapshot"
    /\ CanRLock(lkReg)
    /\ lkReg' = RLock(lkReg, p)
    /\ lkPc' = [lkPc EXCEPT ![p] = "snapshot walks"]
    /\ UNCHANGED <<lkVec, lkArg, lkIds, lkKeys, lkCalls>>
    /\ UNCHANGED notLocks

\* snapshot: vec.snapshot() takes the vector's read lock.
LockerSnapshotVecRLock(p) ==
    /\ lkPc[p] = "snapshot walks"
    /\ CanRLock(lkVec)
    /\ lkVec' = RLock(lkVec, p)
    /\ lkPc' = [lkPc EXCEPT ![p] = "snapshot reads"]
    /\ UNCHANGED <<lkReg, lkArg, lkIds, lkKeys, lkCalls>>
    /\ UNCHANGED notLocks

\* snapshot: vec.snapshot() returns, its deferred RUnlock runs.
LockerSnapshotVecRUnlock(p) ==
    /\ lkPc[p] = "snapshot reads"
    /\ lkVec' = RUnlock(lkVec, p)
    /\ lkPc' = [lkPc EXCEPT ![p] = "snapshot sorts"]
    /\ UNCHANGED <<lkReg, lkArg, lkIds, lkKeys, lkCalls>>
    /\ UNCHANGED notLocks

\* snapshot returns, its deferred c.RUnlock() runs.
LockerSnapshotReturn(p) ==
    /\ lkPc[p] = "snapshot sorts"
    /\ lkReg' = RUnlock(lkReg, p)
    /\ lkPc' = [lkPc EXCEPT ![p] = "idle"]
    /\ UNCHANGED <<lkVec, lkArg, lkIds, lkKeys, lkCalls>>
    /\ UNCHANGED notLocks

\* getOrCreate: vec.metricsMu.RLock().
LockerGetRLock(p) ==
    /\ lkPc[p] = "getOrCreate"
    /\ CanRLock(lkVec)
    /\ lkVec' = RLock(lkVec, p)
    /\ lkPc' = [lkPc EXCEPT ![p] = "getOrCreate probes"]
    /\ UNCHANGED <<lkReg, lkArg, lkIds, lkKeys, lkCalls>>
    /\ UNCHANGED notLocks

\* getOrCreate: the probe and RUnlock; a hit returns, a miss calls Lock.
LockerGetRUnlock(p) ==
    /\ lkPc[p] = "getOrCreate probes"
    /\ IF lkArg[p] \in lkKeys
          THEN /\ lkVec' = RUnlock(lkVec, p)
               /\ lkPc' = [lkPc EXCEPT ![p] = "idle"]
          ELSE /\ lkVec' = LockCalled(RUnlock(lkVec, p), p)
               /\ lkPc' = [lkPc EXCEPT ![p] = "getOrCreate waits"]
    /\ UNCHANGED <<lkReg, lkArg, lkIds, lkKeys, lkCalls>>
    /\ UNCHANGED notLocks

\* getOrCreate: vec.metricsMu.Lock() returns.
LockerGetLocked(p) ==
    /\ lkPc[p] = "getOrCreate waits"
    /\ CanLockNow(lkVec, p)
    /\ lkVec' = Lock(lkVec, p)
    /\ lkPc' = [lkPc EXCEPT ![p] = "getOrCreate locked"]
    /\ UNCHANGED <<lkReg, lkArg, lkIds, lkKeys, lkCalls>>
    /\ UNCHANGED notLocks

\* getOrCreate: newValue, Unlock and the return.
LockerGetReturn(p) ==
    /\ lkPc[p] = "getOrCreate locked"
    /\ lkKeys' = lkKeys \cup {lkArg[p]}
    /\ lkVec' = Unlock(lkVec, p)
    /\ lkPc' = [lkPc EXCEPT ![p] = "idle"]
    /\ UNCHANGED <<lkReg, lkArg, lkIds, lkCalls>>
    /\ UNCHANGED notLocks

\* The steps of a call that is under way.
LockerStep(p) ==
    \/ LockerRegisterLock(p)
    \/ LockerRegisterLocked(p)
    \/ LockerRegisterReturn(p)
    \/ LockerSnapshotRLock(p)
    \/ LockerSnapshotVecRLock(p)
    \/ LockerSnapshotVecRUnlock(p)
    \/ LockerSnapshotReturn(p)
    \/ LockerGetRLock(p)
    \/ LockerGetRUnlock(p)
    \/ LockerGetLocked(p)
    \/ LockerGetReturn(p)

NextLocks ==
    \/ \E p \in Lockers, id \in LockIds : LockerCall(p, "register", id)
    \/ \E p \in Lockers : LockerCall(p, "snapshot", "")
    \/ \E p \in Lockers, key \in LockKeys \cup {""} :
           LockerCall(p, "getOrCreate", key)
    \/ \E p \in Lockers : LockerRegisterLock(p)
    \/ \E p \in Lockers : LockerRegisterLocked(p)
    \/ \E p \in Lockers : LockerRegisterReturn(p)
    \/ \E p \in Lockers : LockerSnapshotRLock(p)
    \/ \E p \in Lockers : LockerSnapshotVecRLock(p)
    \/ \E p \in Lockers : LockerSnapshotVecRUnlock(p)
    \/ \E p \in Lockers : LockerSnapshotReturn(p)
    \/ \E p \in Lockers : LockerGetRLock(p)
    \/ \E p \in Lockers : LockerGetRUnlock(p)
    \/ \E p \in Lockers : LockerGetLocked(p)
    \/ \E p \in Lockers : LockerGetReturn(p)

----------------------------------------------------------------------------
(* CounterVector.Get, one call after the other, and the entries' labels *)

MaxGetIncs == 3

\* The lists Get is called with on the vector of VectorOpts: the declared
\* names, a first name that scrubs like the declared one, names out of
\* place, and values of which two scrub alike.
GetNamesArgs ==
    {<<n1, v1, n2, v2>> :
        n1 \in {<<"b", "!">>, <<"b", "&">>, <<"c">>},
        n2 \in {<<"c">>, <<"b", "!">>},
        v1 \in {<<"b", "!">>, <<"c">>},
        v2 \in {<<"b", "!">>, <<"c">>}}

NoGetNames == [called |-> FALSE, labels |-> <<>>, err |-> "nil"]

InitGetNames ==
    /\ gnMetrics = <<>>
    /\ gnLast = NoGetNames

\* The increments made on the entries so far.
GetNamesIncs ==
    LET Sum[K \in SUBSET DOMAIN gnMetrics] ==
            IF K = {} THEN 0
            ELSE LET k == CHOOSE k \in K : TRUE
                 IN  gnMetrics[k].val + Sum[K \ {k}]
    IN  Sum[DOMAIN gnMetrics]

\* vec.Get(labels...) and, if it returns a counter, Inc on it: the labels
\* are validated, the scrubbed values digested to the key, and the entry
\* under the key is looked up or made with the merged labels.
GetNamesGet(labels) ==
    LET err == ValidateVariableLabels(vecMeta, labels)
        key == vectorKey(labels)
        m == IF key \in DOMAIN gnMetrics THEN gnMetrics[key]
             ELSE [labelPairs |-> MergeLabels(vecMeta, labels), val |-> 0]
    IN  /\ gnLast' = [called |-> TRUE, labels |-> labels, err |-> err]
        /\ IF err # "nil"
              THEN UNCHANGED gnMetrics
              ELSE /\ GetNamesIncs < MaxGetIncs
                   /\ gnMetrics' = Put(gnMetrics, key,
                                       [m EXCEPT !.val = AtomicAdd(@, 1)])
        /\ UNCHANGED notGetNames

NextGetNames == \E labels \in GetNamesArgs : GetNamesGet(labels)

----------------------------------------------------------------------------
(* tallypush: the histogram handle that keeps one last total per bucket *)

MaxHistSets == 3

\* Below this magnitude every integer is a float64 (2^53 in Go).
Float64Exact == 4

\* The bucket values of a histogram, the largest int64 among them.
TallyBuckets == {2, Float64Exact, Float64Exact + 1, MaxInt64}

TallyTotals == 0..2

HistogramTypes == {"Duration", "Value"}

\* The distance between neighbouring float64 values at magnitude a.
RECURSIVE float64Step(_)
float64Step(a) == IF a < Float64Exact THEN 1 ELSE 2 * float64Step(a \div 2)

\* Rounding of a magnitude to the nearest float64, ties to the even one.
float64Round(a) ==
    LET s == float64Step(a)
        lo == (a \div s) * s
    IN  IF 2 * (a - lo) < s THEN lo
        ELSE IF 2 * (a - lo) > s THEN lo + s
        ELSE IF (lo \div s) % 2 = 0 THEN lo ELSE lo + s

\* float64(bucket): the conversion of an int64 to the nearest float64.
float64(b) == IF b >= 0 THEN float64Round(b) ELSE -float64Round(-b)

\* No handle yet.
InitTallyHist ==
    /\ thType = "none"
    /\ thLasts = <<>>
    /\ thRecorded = <<>>
    /\ thCalls = <<>>

\* A handle that remembers no totals.
lastsForgotten(lasts, bucket) == 0

\* th.lasts[bucket]: a missing key reads as zero.
lastsAt(lasts, bucket) == IF bucket \in DOMAIN lasts THEN lasts[bucket] ELSE 0

\* What one pass of the loop hands to the tally histogram.
recordOf(type, bucket) ==
    IF type = "Duration"
    THEN [call |-> "RecordDuration", v |-> bucket]
    ELSE [call |-> "RecordValue", v |-> float64(bucket)]

\* for i := int64(0); i < delta; i++: delta recordings, none for delta <= 0.
recordLoop(type, bucket, delta) ==
    [i \in 1..(IF delta > 0 THEN delta ELSE 0) |-> recordOf(type, bucket)]

\* target.NewHistogram: a handle of the type of the spec with an empty
\* lasts map and nothing recorded to tally.
TargetNewHistogram(type) ==
    /\ thType = "none"
    /\ thType' = type
    /\ UNCHANGED <<thLasts, thRecorded, thCalls>>
    /\ UNCHANGED notTallyHist

\* histogram.Set(bucket, total).
HistogramSet(bucket, total) ==
    /\ thType # "none"
    /\ Len(thCalls) < MaxHistSets
    /\ LET delta == Wrap(total - lastsAt(thLasts, bucket))
       IN  /\ thLasts' = Put(thLasts, bucket, total)
           /\ thRecorded' = thRecorded \o recordLoop(thType, bucket, delta)
    /\ thCalls' = Append(thCalls, <<bucket, total>>)
    /\ UNCHANGED <<thType>>
    /\ UNCHANGED notTallyHist

NextTallyHist ==
    \/ \E type \in HistogramTypes : TargetNewHistogram(type)
    \/ \E bucket \in TallyBuckets, total \in TallyTotals :
          HistogramSet(bucket, total)

----------------------------------------------------------------------------
(* tallypush: the histogram handle that keeps its buckets in a list *)

MaxIndexCalls == 3

MaxIndex == 3

\* spec.Buckets as the histograms of this library hand them over: ascending.
IndexSpecBuckets == {<<>>, <<2>>, <<2, 5>>}

IndexBuckets == {1, 2, 5}

IndexTotals == 1..2

Indexes == -1..MaxIndex

NoIndexCall ==
    [op |-> "none", index |-> 0, bucket |-> 0, total |-> 0, panic |-> "none",
     lasts |-> <<>>, bucketValue |-> <<>>]

\* No handle yet.
InitTallyIndex ==
    /\ tiBucketValue = <<>>
    /\ tiLasts = <<>>
    /\ tiRecorded = <<>>
    /\ tiLast = NoIndexCall
    /\ tiCalls = 0

\* sort.Search(n, f): the least index in [0, n) whose bucket is at least
\* the given one, n when there is none. Indexes are Go's, from zero.
searchFrom(bucketValue, n, bucket, i) ==
    LET hits == {k \in i..(n - 1) : bucketValue[k + 1] >= bucket}
    IN  IF hits = {} THEN n ELSE CHOOSE k \in hits : \A h \in hits : k <= h

\* The slice with v inserted before Go index i.
insertAt(seq, i, v) == SubSeq(seq, 1, i) \o <<v>> \o SubSeq(seq, i + 1, Len(seq))

\* bucket != th.bucketValue[index]
bucketMismatch(bucketValue, index, bucket) == bucket # bucketValue[index + 1]

\* ensureBucket(index, bucket, panicOnError): the lists afterwards and the
\* panic raised, if any. A negative index fails the bounds check of
\* th.bucketValue[index].
ensureBucket(lasts, bucketValue, index, bucket, panicOnError) ==
    IF index >= Len(bucketValue)
    THEN [lasts |-> Append(lasts, 0), bucketValue |-> Append(bucketValue, bucket),
          panic |-> "none"]
    ELSE IF index < 0
    THEN [lasts |-> lasts, bucketValue |-> bucketValue,
          panic |-> "index out of range"]
    ELSE IF bucketMismatch(bucketValue, index, bucket)
    THEN IF panicOnError
         THEN [lasts |-> lasts, bucketValue |-> bucketValue,
               panic |-> "insertion is not supported"]
         ELSE [lasts |-> insertAt(lasts, index, 0),
               bucketValue |-> insertAt(bucketValue, index, bucket),
               panic |-> "none"]
    ELSE [lasts |-> lasts, bucketValue |-> bucketValue, panic |-> "none"]

\* recordValue(index, bucket, total) on the lists ensureBucket left: the
\* lasts afterwards, the recordings made and the panic of th.lasts[index].
recordValue(lasts, index, bucket, total) ==
    IF index < 0 \/ index >= Len(lasts)
    THEN [lasts |-> lasts, recorded |-> <<>>, panic |-> "index out of range"]
    ELSE [lasts |-> [lasts EXCEPT ![index + 1] = total],
          recorded |-> recordLoop("Value", bucket, Wrap(total - lasts[index + 1])),
          panic |-> "none"]

\* ensureBucket, then recordValue unless ensureBucket panicked.
ensureAndRecord(op, index, bucket, total, panicOnError) ==
    LET e == ensureBucket(tiLasts, tiBucketValue, index, bucket, panicOnError)
        r == recordValue(e.lasts, index, bucket, total)
        panicked == e.panic # "none"
    IN  /\ tiCalls' = tiCalls + 1
        /\ tiBucketValue' = e.bucketValue
        /\ tiLasts' = IF panicked THEN e.lasts ELSE r.lasts
        /\ tiRecorded' = IF panicked THEN tiRecorded ELSE tiRecorded \o r.recorded
        /\ tiLast' = [op |-> op, index |-> index, bucket |-> bucket,
                      total |-> total,
                      panic |-> IF panicked THEN e.panic ELSE r.panic,
                      lasts |-> tiLasts, bucketValue |-> tiBucketValue]
        /\ UNCHANGED notTallyIndex

\* target.NewHistogram: bucketValue is the spec's bucket list and lasts
\* holds a zero for every bucket of it.
TargetNewIndexHistogram(buckets) ==
    /\ tiLast.op = "none"
    /\ tiBucketValue' = buckets
    /\ tiLasts' = [i \in 1..Len(buckets) |-> 0]
    /\ tiLast' = [NoIndexCall EXCEPT !.op = "NewHistogram"]
    /\ UNCHANGED <<tiRecorded, tiCalls>>
    /\ UNCHANGED notTallyIndex

\* histogram.Set(bucket, total): the index comes from a binary search.
HistogramIndexSet(bucket, total) ==
    /\ tiLast.op # "none"
    /\ tiCalls < MaxIndexCalls
    /\ ensureAndRecord("Set",
                       searchFrom(tiBucketValue, Len(tiLasts), bucket, 0),
                       bucket, total, FALSE)

\* histogram.SetIndex(bucketIndex, bucket, total).
HistogramSetIndex(bucketIndex, bucket, total) ==
    /\ tiLast.op # "none"
    /\ tiCalls < MaxIndexCalls
    /\ ensureAndRecord("SetIndex", bucketIndex, bucket, total, TRUE)

NextTallyIndex ==
    \/ \E buckets \in IndexSpecBuckets : TargetNewIndexHistogram(buckets)
    \/ \E bucket \in IndexBuckets, total \in IndexTotals :
          HistogramIndexSet(bucket, total)
    \/ \E bucketIndex \in Indexes, bucket \in IndexBuckets, total \in IndexTotals :
          HistogramSetIndex(bucketIndex, bucket, total)

Init ==
    /\ InitPush /\ InitCounter /\ InitRegistry /\ InitVector /\ InitOpts
    /\ InitScope /\ InitNil /\ InitSnapshot
    /\ InitGauge
    /\ InitHistogram
    /\ InitPusher
    /\ InitTally
    /\ InitAddConc
    /\ InitEntries
    /\ InitLocks
    /\ InitSeen
    /\ InitGetNames
    /\ InitTallyHist
    /\ InitTallyIndex

Next ==
    \/ NextPush \/ NextCounter \/ NextRegistry \/ NextRegisterConc \/ NextVector
    \/ NextOpts \/ NextLabeled \/ NextCreate \/ NextNil \/ NextSnapshot
    \/ NextGauge
    \/ NextHistogram
    \/ NextPusher
    \/ NextTally
    \/ NextAddConc
    \/ NextEntries
    \/ NextLocks
    \/ NextGetNames
    \/ NextTallyHist
    \/ NextTallyIndex

Spec == Init /\ [][Next]_vars

SpecPush == Init /\ [][NextPush]_vars

SpecCounter == Init /\ [][NextCounter]_vars

SpecRegistry == Init /\ [][NextRegistry]_vars

SpecRegisterConc == Init /\ [][NextRegisterConc]_vars

SpecVector == Init /\ [][NextVector]_vars

SpecOpts == Init /\ [][NextOpts]_vars

SpecLabeled == Init /\ [][NextLabeled]_vars

SpecCreate == Init /\ [][NextCreate]_vars

SpecNil == Init /\ [][NextNil]_vars

SpecSnapshot == Init /\ [][NextSnapshot]_vars

SpecGauge == Init /\ [][NextGauge]_vars

SpecHistogram == Init /\ [][NextHistogram]_vars

SpecPusher == Init /\ [][NextPusher]_vars

\* The ticker keeps firing and the loop's goroutine and the caller of the
\* stop function keep being scheduled.
SpecPusherLive ==
    /\ Init
    /\ [][NextPusher]_vars
    /\ WF_vars(PusherTick)
    /\ WF_vars(PusherPushStep)
    /\ WF_vars(PusherExit)
    /\ WF_vars(PusherStopReturn)

SpecTally == Init /\ [][NextTally]_vars

SpecAddConc == Init /\ [][NextAddConc]_vars

SpecEntries == Init /\ [][NextEntries]_vars

SpecLocks == Init /\ [][NextLocks]_vars

\* Every goroutine with a call under way keeps being scheduled.
SpecLocksLive ==
    /\ Init
    /\ [][NextLocks]_vars
    /\ \A p \in Lockers : WF_vars(LockerStep(p))

SpecGetNames == Init /\ [][NextGetNames]_vars

SpecTallyHist == Init /\ [][NextTallyHist]_vars

SpecTallyIndex == Init /\ [][NextTallyIndex]_vars

Succeeded(c) == pushPc[c] = "returned" /\ pushRet[c].err = "nil"

Refused(c) ==
    pushPc[c] = "returned" /\ pushRet[c].err = "already pushing"
                           /\ pushRet[c].stop = 0

\* C1: over any interleaving of Push calls on one Root at most one call
\* returns success (with a stop handle); every other call that has returned
\* has returned the "already pushing" error and no stop handle.
C1_AtMostOnePush ==
    /\ Cardinality({c \in PushCalls : Succeeded(c)}) <= 1
    /\ \A c \in PushCalls :
           pushPc[c] = "returned" =>
               \/ Succeeded(c) /\ pushRet[c].stop # 0
               \/ Refused(c)
    /\ \A c \in PushCalls :
           Refused(c) =>
               \E d \in PushCalls \ {c} : pushPc[d] # "idle" /\ ~pushOld[d]

\* Two calls overlapped (both had swapped before either returned is one of
\* the interleavings); one succeeded and the others were refused.
C1_Witness ==
    /\ \E c \in PushCalls : Succeeded(c)
    /\ Cardinality({c \in PushCalls : Refused(c)}) >= 2

\* C2: the pushing flag is sticky; once set it is never cleared, and a Push
\* call that starts after the stop function has returned is still refused.
C2_StickyFlag ==
    /\ [][pushing => pushing']_vars
    /\ [](\A c \in PushCalls :
             (pushPc[c] = "returned" /\ pushAfterStop[c]) => Refused(c))

C2_Witness ==
    \E c \in PushCalls : pushPc[c] = "returned" /\ pushAfterStop[c] /\ pushing

\* C9: Counter.Add(n) with n <= 0 leaves the cell as it was and returns the
\* unchanged value.
C9_AddNonPositiveNoop ==
    (ctrLast.op = "Add" /\ ctrLast.n <= 0) =>
        /\ ctrLast.post = ctrLast.pre
        /\ ctrLast.ret = ctrLast.pre
        /\ ctrVal = ctrLast.pre

\* An Add of a negative number on a counter that already counted something.
C9_Witness == ctrLast.op = "Add" /\ ctrLast.n < 0 /\ ctrLast.pre > 0

\* C10: the values returned by successive Load calls never decrease.
C10_LoadsNeverDecrease == loadPrev <= loadLast

----------------------------------------------------------------------------
(* The registry's uniqueness rules *)

\* A metric's identity as the rules state it: its scrubbed name with the set
\* of its scrubbed constant label names and values.
IdentityOf(m) ==
    [name |-> m.meta.Name,
     pairs |-> {m.meta.constPairs[i] : i \in 1..Len(m.meta.constPairs)}]

\* A metric's dimensions as the rules state them: the set of scrubbed
\* constant label names and the set of scrubbed variable label names.
DimensionsOf(m) ==
    [const |-> {m.meta.constPairs[i].Name : i \in 1..Len(m.meta.constPairs)},
     var |-> {scrubName(m.meta.variableLabelNames[i]) :
                 i \in 1..Len(m.meta.variableLabelNames)}]

Registered == {metrics[i] : i \in 1..Len(metrics)}

Before == {regLast.before[i] : i \in 1..Len(regLast.before)}

\* The last creation call got as far as register.
LastRegistered == regLast.called /\ regLast.m # NoMetric

\* C3: no two registered metrics share the scrubbed name and the scrubbed
\* constant label names and values, and a creation call whose identity is
\* already registered fails, whatever its kind and help text.
C3_UniqueIdentity ==
    /\ \A i, j \in 1..Len(metrics) :
           i # j => IdentityOf(metrics[i]) # IdentityOf(metrics[j])
    /\ (LastRegistered /\ \E m \in Before : IdentityOf(m) = IdentityOf(regLast.m))
           => regLast.err # "nil" /\ metrics = regLast.before

\* A gauge, counter or histogram with another help text was refused for
\* the identity of a registered metric of another kind.
C3_Witness ==
    /\ LastRegistered
    /\ regLast.err = "same constant label names and values"
    /\ \E m \in Registered :
           /\ IdentityOf(m) = IdentityOf(regLast.m)
           /\ m.kind # regLast.m.kind
           /\ m.meta.Help # regLast.m.meta.Help

\* C4: all registered metrics of one name have the same dimensions, constant
\* and variable names kept apart, and a creation call of a registered name
\* with other dimensions fails.
C4_SameDimensions ==
    /\ \A m1, m2 \in Registered :
           m1.meta.Name = m2.meta.Name => DimensionsOf(m1) = DimensionsOf(m2)
    /\ (LastRegistered /\ \E m \in Before :
                              /\ m.meta.Name = regLast.m.meta.Name
                              /\ DimensionsOf(m) # DimensionsOf(regLast.m))
           => regLast.err # "nil" /\ metrics = regLast.before

\* A vector was refused whose variable label is a constant label of the
\* registered metric of that name.
C4_Witness ==
    /\ LastRegistered
    /\ regLast.err = "different label names"
    /\ \E m \in Registered :
           /\ m.meta.Name = regLast.m.meta.Name
           /\ DimensionsOf(m).const # {}
           /\ DimensionsOf(m).const = DimensionsOf(regLast.m).var

\* C5: register succeeds exactly when no registered metric of the name has
\* other dimensions and the identity is not registered yet.
C5_RegisterExactlyWhen ==
    LastRegistered =>
        (regLast.err = "nil" <=>
            /\ \A m \in Before :
                   m.meta.Name = regLast.m.meta.Name
                       => DimensionsOf(m) = DimensionsOf(regLast.m)
            /\ \A m \in Before : IdentityOf(m) # IdentityOf(regLast.m))

----------------------------------------------------------------------------
(* Concurrent register calls *)

Done(p) == regPc[p] = "done"

\* The finished calls made with the identity of p's metric.
SameIdentityDone(p) ==
    {q \in Procs : Done(q) /\ IdentityOf(regArg[q]) = IdentityOf(regArg[p])}

Accepted(p) == {q \in SameIdentityDone(p) : regRet[q] = "nil"}

Listed(p) ==
    {i \in 1..Len(metrics) : IdentityOf(metrics[i]) = IdentityOf(regArg[p])}

----------------------------------------------------------------------------
(* Vector entries *)

\* C7: the factory is invoked at most once per key, every Get of a key is
\* handed the one instance the map holds for it, and an entry of the map is
\* never removed or replaced.
C7_CreatedOnce ==
    /\ [](\A k \in DOMAIN factoryCalls : factoryCalls[k] <= 1)
    /\ [](\A k \in DOMAIN served :
             k \in DOMAIN vecMetrics /\ served[k] = {vecMetrics[k].id})
    /\ [][\A k \in DOMAIN vecMetrics :
             k \in DOMAIN vecMetrics' /\ vecMetrics'[k].id = vecMetrics[k].id]_vars

\* A key was created and handed out, and a second caller that had missed it
\* in its probe now holds the write lock for the same key.
C7_Witness ==
    \E p \in Getters :
        /\ getPc[p] = "locked"
        /\ vectorKey(getArgs[p]) \in DOMAIN served
        /\ factoryCalls[vectorKey(getArgs[p])] = 1

\* The argument lists the claim calls right: two strings per declared
\* variable label, the names those declared, in the declared order.
WellFormed(labels) ==
    /\ Len(labels) = 2 * Len(VectorOpts.VariableLabels)
    /\ \A i \in 1..Len(VectorOpts.VariableLabels) :
           labels[2 * i - 1] = VectorOpts.VariableLabels[i]

FailedGet(g) == g.err \notin {"nil", "pending"}

\* C8: a Get with a wrong number of strings or with names out of the
\* declared order returns an error and no metric, goes no further and leaves
\* the map as it was; MustGet panics.
C8_BadLabelsRejected ==
    /\ [](\A p \in Getters : getPc[p] # "idle" => WellFormed(getArgs[p]))
    /\ [](FailedGet(lastGet) =>
             lastGet.m = 0 /\ (lastGet.panic <=> lastGet.call = "MustGet"))
    /\ [][(lastGet' # lastGet /\ FailedGet(lastGet')) =>
             UNCHANGED <<vecMetrics, vecMu, getPc, getArgs>>]_vars

\* With entries in the map, a MustGet with the names out of order panicked.
C8_Witness ==
    /\ lastGet.err = "variable label doesn't match vector definition"
    /\ lastGet.panic
    /\ DOMAIN vecMetrics # {}

----------------------------------------------------------------------------
(* Option validation *)

StrictlyIncreasing(b) == \A i \in 2..Len(b) : b[i - 1] < b[i]

\* C15: the histogram-specific check fails exactly when the unit is less
\* than 1, or the bucket list is empty, or some bound is not strictly greater
\* than the one before it; every non-empty strictly increasing list with a
\* positive unit passes.
C15_LatenciesExactly ==
    latLast.called =>
        (latLast.err # "nil" <=>
            \/ latLast.Unit < 1
            \/ Len(latLast.Buckets) = 0
            \/ ~StrictlyIncreasing(latLast.Buckets))

----------------------------------------------------------------------------
(* Scopes *)

\* The maps of a chain that hold a key scrubbing to n.
Appliers(chain, n) ==
    {j \in 1..Len(chain) : \E k \in DOMAIN chain[j] : scrubName(k) = n}

\* The scrubbed values the last of them gives for n.
LastApplied(chain, n) ==
    LET j == CHOOSE j \in Appliers(chain, n) : \A h \in Appliers(chain, n) : h <= j
    IN  {scrubLabelValue(chain[j][k]) :
            k \in {k \in DOMAIN chain[j] : scrubName(k) = n}}

PairsOf(m) == {m.meta.constPairs[i] : i \in 1..Len(m.meta.constPairs)}

\* C17: Labeled returns a new Scope holding the parent's labels overridden
\* by the new ones on a collision of names, so that over a chain of Labeled
\* calls the last value applied for a name is the one the Scope holds and
\* the one a metric created from it carries; the Scopes that exist are left
\* as they were and the registry is not touched.
C17_LabeledLastWins ==
    /\ [](\A i \in 1..Len(scopes) :
             ~scopes[i].isNil =>
                 /\ DOMAIN scopes[i].constLabels =
                        {scrubName(k) : k \in UNION {DOMAIN chains[i][j] :
                                                        j \in 1..Len(chains[i])}}
                 /\ \A n \in DOMAIN scopes[i].constLabels :
                        scopes[i].constLabels[n] \in LastApplied(chains[i], n))
    /\ []((labLast.called /\ ~scopes[labLast.parent].isNil) =>
             LET parent == scopes[labLast.parent].constLabels
                 new == {scrubName(k) : k \in DOMAIN labLast.ls}
                 ret == labLast.ret.constLabels
             IN  /\ ~labLast.ret.isNil
                 /\ DOMAIN ret = DOMAIN parent \cup new
                 /\ \A n \in new :
                        \E k \in DOMAIN labLast.ls :
                            scrubName(k) = n /\ ret[n] = scrubLabelValue(labLast.ls[k])
                 /\ \A n \in DOMAIN parent \ new : ret[n] = parent[n])
    /\ []((callIn.called /\ ~callIn.scope.isNil /\ regLast.err = "nil") =>
             \A n \in DOMAIN callIn.scope.constLabels :
                 n \in DOMAIN callIn.spec.Labels
                 \/ [Name |-> n, Value |-> callIn.scope.constLabels[n]]
                        \in PairsOf(regLast.ret))
    /\ [][/\ \A i \in 1..Len(scopes) : scopes'[i] = scopes[i]
          /\ labLast' # labLast => UNCHANGED <<regMu, coreVars>>]_vars

\* A metric was created from a Scope two Labeled calls away from the
\* Root's, the second call having replaced the value of the first.
C17_Witness ==
    /\ callIn.called /\ regLast.err = "nil"
    /\ \E i \in 1..Len(scopes) :
           /\ callIn.scope = scopes[i]
           /\ Len(chains[i]) = 2
           /\ <<"A">> \in DOMAIN chains[i][1]
           /\ chains[i][1][<<"A">>] = <<"q">>
           /\ scopes[i].constLabels[<<"A">>] = <<"_">>
    /\ [Name |-> <<"A">>, Value |-> <<"_">>] \in PairsOf(regLast.ret)

----------------------------------------------------------------------------
(* Creation calls *)

\* The last creation call was made on a Scope that is not nil.
Created == callIn.called /\ ~callIn.scope.isNil

\* It returned an error and no metric, and registered nothing.
CreateFailed ==
    /\ regLast.err # "nil"
    /\ regLast.ret = NoMetric
    /\ metrics = regLast.before

ScrubAlike(a, b) == scrubName(a) = scrubName(b)

\* C12: for every kind, a spec two of whose constant label names are distinct
\* and scrub to the same name is refused and nothing is registered; the
\* error is the duplicate-label one whenever the options pass validation.
C12_DuplicateConstRefused ==
    (Created /\ \E a, b \in DOMAIN callIn.spec.Labels : a # b /\ ScrubAlike(a, b))
        => /\ CreateFailed
           /\ validateFor(callIn.kind, callIn.spec) = "nil"
                  => regLast.err = "duplicate constant label name"

\* A histogram vector was refused for its two constant names while a metric
\* was registered.
C12_Witness ==
    /\ Created /\ callIn.kind = "HistogramVector"
    /\ regLast.err = "duplicate constant label name"
    /\ Len(metrics) = 1

\* C13: a vector two of whose variable label names are equal after
\* scrubbing, or one of whose variable label names equals after scrubbing a
\* constant label name of the spec or of the Scope, is refused and nothing
\* is registered.
C13_VariableCollisionRefused ==
    LET v == callIn.spec.VariableLabels
        const == DOMAIN callIn.scope.constLabels \cup DOMAIN callIn.spec.Labels
    IN  (/\ Created /\ callIn.kind \in VectorKinds
         /\ \/ \E i, j \in 1..Len(v) : i # j /\ ScrubAlike(v[i], v[j])
            \/ \E i \in 1..Len(v) : \E k \in const : ScrubAlike(v[i], k))
            => CreateFailed

\* With a metric registered, a vector was refused whose variable name
\* scrubs to the name of a label of its Scope.
C13_Witness ==
    /\ Created /\ callIn.kind \in VectorKinds
    /\ callIn.scope = ScopeU
    /\ callIn.spec.VariableLabels = << <<"&">> >>
    /\ regLast.err = "variable label name is also a constant label name"
    /\ Len(metrics) = 1

\* C14: a scalar creation call fails if the name is empty, the help text is
\* empty or there is a variable label; a vector creation call fails if the
\* name is empty, the help text is empty or there is no variable label; the
\* call returns the error and no metric, and nothing is registered.
C14_ValidationRefuses ==
    LET o == callIn.spec
    IN  (/\ Created
         /\ \/ o.Name = <<>>
            \/ o.Help = <<>>
            \/ callIn.kind \in ScalarKinds /\ Len(o.VariableLabels) > 0
            \/ callIn.kind \in VectorKinds /\ Len(o.VariableLabels) = 0)
            => CreateFailed

\* With a metric registered, a histogram vector with a name and no help text
\* was refused.
C14_Witness ==
    /\ Created /\ callIn.kind = "HistogramVector"
    /\ callIn.spec.Name # <<>> /\ callIn.spec.Help = <<>>
    /\ Len(callIn.spec.VariableLabels) > 0
    /\ regLast.err = "metric help must not be empty"
    /\ Len(metrics) = 1

\* C18: when a label of the Scope and a constant label of the spec collide
\* on name, raw or after scrubbing, a creation call that is in order
\* otherwise succeeds and the metric carries the spec's value for the name.
C18_SpecLabelWins ==
    LET o == callIn.spec
    IN  (/\ Created
         /\ regLast.before = <<>>
         /\ validateFor(callIn.kind, o) = "nil"
         /\ newMetadata(o).err = "nil"
         /\ \A i \in 1..Len(o.VariableLabels) :
                \A k \in DOMAIN callIn.scope.constLabels :
                    ~ScrubAlike(o.VariableLabels[i], k))
            => \A a \in DOMAIN callIn.scope.constLabels :
                   \A b \in DOMAIN o.Labels :
                       ScrubAlike(a, b) =>
                           /\ regLast.err = "nil"
                           /\ [Name |-> scrubName(b),
                               Value |-> scrubLabelValue(o.Labels[b])]
                                  \in PairsOf(regLast.ret)

----------------------------------------------------------------------------
(* Nil receivers *)

\* C16: on a nil Scope every creation call returns a nil metric and a nil
\* error whatever the spec, and registers nothing; Labeled returns nil; and
\* every method of a nil Counter, Gauge, Histogram or vector returns 0,
\* false or nil, or nothing, and does not panic.
C16_NilNoOps ==
    /\ (callIn.called /\ callIn.scope.isNil) =>
           /\ regLast.err = "nil"
           /\ regLast.ret = NoMetric
           /\ metrics = regLast.before
    /\ (labLast.called /\ scopes[labLast.parent].isNil) =>
           /\ labLast.ret.isNil
           /\ Len(scopes) = 2
    /\ nilLast.called =>
           /\ ~nilLast.out.panic
           /\ nilLast.out.ret =
                  (IF nilLast.kind \in VectorKinds THEN "nil"
                   ELSE IF nilLast.op = "CAS" THEN "false"
                   ELSE IF nilLast.kind = "Histogram" \/ nilLast.op = "Store"
                       THEN "nothing"
                   ELSE "0")

\* Labeled was called on the nil Scope, a gauge was asked of it with options
\* that have no name and two labels that scrub alike, and Dec was called on
\* the gauge returned.
C16_Witness ==
    /\ labLast.called /\ scopes[labLast.parent].isNil
    /\ callIn.called /\ callIn.scope.isNil /\ callIn.kind = "Gauge"
    /\ callIn.spec.Name = <<>> /\ callIn.spec.Labels = DupLabels
    /\ nilLast.called /\ nilLast.kind = "Gauge" /\ nilLast.op = "Dec"

\* The scrubbed values of a list of labels, in order.
ScrubbedValues(labels) ==
    [j \in 1..(Len(labels) \div 2) |-> scrubLabelValue(labels[2 * j])]

\* The label lists the i-th metric, a vector, was incremented through.
UsedLabels(i) == {l \in SnapshotGetInputs : <<i, l>> \in DOMAIN incs}

\* The increments made through the lists of L on the i-th metric.
RECURSIVE SumIncs(_, _)
SumIncs(i, L) ==
    IF L = {} THEN 0
    ELSE LET l == CHOOSE l \in L : TRUE
         IN  incs[<<i, l>>] + SumIncs(i, L \ {l})

\* The lists used on the i-th metric whose values scrub as those of l do.
Alike(i, l) ==
    {x \in UsedLabels(i) : ScrubbedValues(x) = ScrubbedValues(l)}

\* The label map carries the vector's variable names, scrubbed, with the
\* scrubbed values of l.
HasScrubbed(labelMap, meta, l) ==
    \A j \in 1..Len(meta.variableLabelNames) :
        /\ scrubName(meta.variableLabelNames[j]) \in DOMAIN labelMap
        /\ labelMap[scrubName(meta.variableLabelNames[j])] = ScrubbedValues(l)[j]

\* The slice of the last Snapshot the i-th metric's entries are in.
SliceOf(i) ==
    IF metrics[i].kind \in {"Counter", "CounterVector"} THEN snapLast.Counters
    ELSE IF metrics[i].kind \in {"Gauge", "GaugeVector"} THEN snapLast.Gauges
    ELSE snapLast.Histograms

\* C11: a vector keys its entries by the scrubbed variable label values:
\* Get calls whose values differ as written but scrub alike are served the
\* same metric, so the vector holds one value per list of scrubbed values,
\* that value is the sum of the increments made through all the lists that
\* scrub to it, and a Snapshot shows it once, under the scrubbed value.
C11_ScrubbedKey ==
    \A i \in 1..Len(metrics) :
        metrics[i].kind \in {"CounterVector", "GaugeVector"} =>
            /\ Cardinality(KeysOf(i)) =
                   Cardinality({ScrubbedValues(l) : l \in UsedLabels(i)})
            /\ \A l \in UsedLabels(i) :
                   Cardinality(
                       {k \in KeysOf(i) :
                           /\ HasScrubbed(zip(cells[<<i, k>>].labelPairs),
                                          metrics[i].meta, l)
                           /\ cells[<<i, k>>].val = SumIncs(i, Alike(i, l))})
                       = 1
            /\ SnapshotCurrent =>
                   \A l \in UsedLabels(i) :
                       Cardinality(
                           {n \in 1..Len(SliceOf(i)) :
                               /\ SliceOf(i)[n].Name = metrics[i].meta.Name
                               /\ HasScrubbed(SliceOf(i)[n].Labels,
                                              metrics[i].meta, l)}) = 1
                       /\ \E n \in 1..Len(SliceOf(i)) :
                              /\ SliceOf(i)[n].Name = metrics[i].meta.Name
                              /\ HasScrubbed(SliceOf(i)[n].Labels,
                                             metrics[i].meta, l)
                              /\ SliceOf(i)[n].Value = SumIncs(i, Alike(i, l))

\* A vector was incremented through "b!" and through "b&" and the Snapshot
\* taken afterwards shows the two increments in one entry under "b_".
C11_Witness ==
    \E i \in 1..Len(metrics) :
        /\ metrics[i].kind \in {"CounterVector", "GaugeVector"}
        /\ <<i, <<<<"b", "!">>, <<"b", "!">>>>>> \in DOMAIN incs
        /\ <<i, <<<<"b", "!">>, <<"b", "&">>>>>> \in DOMAIN incs
        /\ SnapshotCurrent
        /\ \E n \in 1..Len(SliceOf(i)) :
               /\ SliceOf(i)[n].Labels[<<"b", "_">>] = <<"b", "_">>
               /\ SliceOf(i)[n].Value = 2

\* Name first, labels second.
ComesBefore(a, b) ==
    \/ StrLess(a.Name, b.Name)
    \/ a.Name = b.Name /\ LabelsLess(a.Labels, b.Labels)

Ascending(slice) ==
    \A n \in 1..(Len(slice) - 1) : ComesBefore(slice[n], slice[n + 1])

ExpectedLabels(meta, l) ==
    LET nC == Len(meta.constPairs)
        nV == Len(l) \div 2
        constNames == {meta.constPairs[a].Name : a \in 1..nC}
        varNames == {scrubName(meta.variableLabelNames[j]) : j \in 1..nV}
    IN  [n \in constNames \cup varNames |->
            IF n \in constNames
               THEN LET a == CHOOSE a \in 1..nC : meta.constPairs[a].Name = n
                    IN  meta.constPairs[a].Value
               ELSE LET j == CHOOSE j \in 1..nV :
                                 scrubName(meta.variableLabelNames[j]) = n
                    IN  scrubLabelValue(l[2 * j])]

\* The entries due in a slice of counters or gauges, each with the metric
\* it is due for: one for every registered scalar of the kind, with the
\* value the scalar holds, and one for every value made in a vector of the
\* kind, with the value a Get with its labels would find.
ExpectedSimple(scalarKind, vectorKind) ==
    {<<i, [Name |-> metrics[i].meta.Name,
           Labels |-> ExpectedLabels(metrics[i].meta, <<>>),
           Value |-> Cell(i, NoKey).val]>> :
        i \in {x \in 1..Len(metrics) : metrics[x].kind = scalarKind}}
    \cup
    UNION {{<<i, [Name |-> metrics[i].meta.Name,
                  Labels |-> ExpectedLabels(metrics[i].meta, l),
                  Value |-> cells[<<i, vectorKey(l)>>].val]>> :
               l \in UsedLabels(i)} :
           i \in {x \in 1..Len(metrics) : metrics[x].kind = vectorKind}}

\* The entries due in the slice of histograms; no histogram was observed
\* in and no value was made in a histogram vector.
ExpectedHistograms ==
    {<<i, [Name |-> metrics[i].meta.Name,
           Labels |-> ExpectedLabels(metrics[i].meta, <<>>),
           Values |-> <<>>]>> :
        i \in {x \in 1..Len(metrics) : metrics[x].kind = "Histogram"}}

\* The slice holds every entry due exactly once and nothing else.
HoldsExactly(slice, expected) ==
    /\ Len(slice) = Cardinality(expected)
    /\ \A x \in expected :
           Cardinality({n \in 1..Len(slice) : slice[n] = x[2]}) = 1

\* The vectors no value was made in.
Unpopulated ==
    {i \in 1..Len(metrics) : metrics[i].kind \in VectorKinds /\ KeysOf(i) = {}}

\* The entry is one of the metric: its name and constant labels.
EntryOf(e, meta) ==
    /\ e.Name = meta.Name
    /\ \A a \in 1..Len(meta.constPairs) :
           /\ meta.constPairs[a].Name \in DOMAIN e.Labels
           /\ e.Labels[meta.constPairs[a].Name] = meta.constPairs[a].Value

----------------------------------------------------------------------------
(* The Gauge's operations *)

\* C21: on one cell, Add(n) and Sub(n) return the new value, Sub(n) being
\* Add(-n), Inc being Add(1) and Dec being Sub(1); Swap(n) stores n and
\* returns the previous value; Store(n) stores n, so that a Load that comes
\* next returns n; CAS(old, new) returns true and stores new exactly when
\* the cell holds old, and otherwise returns false and leaves the cell.
C21_GaugeOperations ==
    /\ [](/\ gaugeLast.op \in {"Add", "Inc"} =>
                /\ gaugeLast.ret = Wrap(gaugeLast.pre + gaugeLast.n)
                /\ gaugeVal = gaugeLast.ret
          /\ gaugeLast.op \in {"Sub", "Dec"} =>
                /\ gaugeLast.ret = Wrap(gaugeLast.pre + Wrap(-gaugeLast.n))
                /\ gaugeVal = gaugeLast.ret
          /\ gaugeLast.op \in {"Inc", "Dec"} => gaugeLast.n = 1
          /\ gaugeLast.op = "Swap" =>
                gaugeVal = gaugeLast.n /\ gaugeLast.ret = gaugeLast.pre
          /\ gaugeLast.op = "Store" => gaugeVal = gaugeLast.n
          /\ gaugeLast.op = "Load" =>
                gaugeLast.ret = gaugeLast.pre /\ gaugeVal = gaugeLast.pre
          /\ gaugeLast.op = "CAS" =>
                /\ gaugeLast.ok <=> gaugeLast.pre = gaugeLast.old
                /\ gaugeLast.ok => gaugeVal = gaugeLast.n
                /\ ~gaugeLast.ok => gaugeVal = gaugeLast.pre)
    /\ [][(gaugeLast.op = "Store" /\ gaugeLast'.op = "Load")
              => gaugeLast'.ret = gaugeLast.n]_vars

\* A CAS on a cell that held something else than old and was left alone.
C21_Witness ==
    /\ gaugeLast.op = "CAS" /\ ~gaugeLast.ok
    /\ gaugeLast.pre # 0 /\ gaugeLast.n # gaugeLast.pre
    /\ gaugeVal = gaugeLast.pre

----------------------------------------------------------------------------
(* The histogram's buckets and views *)

\* The bucket a value belongs in: the one with the smallest upper bound
\* that is not below the value, the overflow bucket above every bound.
BelongsIn(v, i) ==
    IF i = Overflow THEN \A j \in 1..Len(HistBuckets) : HistBuckets[j] < v
    ELSE /\ HistBuckets[i] >= v
         /\ \A j \in 1..(i - 1) : HistBuckets[j] < v

\* v is the duration d in the histogram's unit: what is left over is less
\* than a unit and has the sign of d.
InUnits(d, v) ==
    LET rest == d - v * HistUnit
    IN  /\ rest > -HistUnit /\ rest < HistUnit
        /\ (d >= 0 => rest >= 0) /\ (d <= 0 => rest <= 0)

Representable(n) == n * HistUnit \in Int64

\* What the counters become when the duration d is observed.
AfterObserve(d) ==
    [bucketCounts EXCEPT ![bucketSearch(GoDiv(d, HistUnit))] = @ + 1]

RECURSIVE CountsUpTo(_)
CountsUpTo(i) == IF i = 0 THEN 0 ELSE bucketCounts[i] + CountsUpTo(i - 1)

Times(seq, v) == Cardinality({k \in 1..Len(seq) : seq[k] = v})

PusherSnapshotCells ==
    {<<m, k>> \in PushSlots \X PushKeys :
        m <= Len(pushMetrics) /\ k <= Len(pushCells[m])}

\* C26: a metric whose spec sets DisablePush is never handed to the push
\* target: over any run of the pusher the target gets no handle-creation
\* call and no Set call for it or for any entry of a DisablePush vector,
\* while its cells are still listed by a snapshot.
C26_DisablePushNeverPushed ==
    \A m \in 1..Len(pushMetrics) :
        pushMetrics[m].disablePush =>
            /\ \A k \in PushKeys : pushTarget[m][k] = NoTargetCalls
            /\ \A k \in 1..Len(pushCells[m]) : <<m, k>> \in PusherSnapshotCells

\* Two ticks have walked a registry that holds a DisablePush vector with
\* a counted entry and a counter that was pushed twice.
C26_Witness ==
    /\ Len(pushMetrics) = 2
    /\ pushMetrics[1].disablePush /\ pushMetrics[1].vector
    /\ pushCells[1] = <<1>>
    /\ ~pushMetrics[2].disablePush
    /\ pushTarget[2][1].sets = 2
    /\ pushTicks = 2
    /\ pushLoop = "waiting"

\* A cell that the pusher has to push.
Pushable(m, k) ==
    /\ m <= Len(pushMetrics)
    /\ k <= Len(pushCells[m])
    /\ ~pushMetrics[m].disablePush

\* The pusher runs and has a tick to come.
PusherRuns ==
    /\ pushLoop \in {"waiting", "pushing"}
    /\ ~pushStop
    /\ pushTicks < MaxTicks

\* C27: while the pusher runs, every metric without DisablePush is in the
\* end pushed, whether it was registered before Push was called or after
\* it, and again by each later tick; every Set carries the cell's total at
\* the time of the call, never a difference between ticks.
C27_PushesCumulativeTotals ==
    /\ \A m \in PushSlots, k \in PushKeys, n \in 0..(MaxTicks - 1) :
           (Pushable(m, k) /\ PusherRuns /\ pushTarget[m][k].sets = n)
               ~> (pushStop \/ pushTarget[m][k].sets > n)
    /\ [][\A m \in PushSlots, k \in PushKeys :
              pushTarget'[m][k].sets # pushTarget[m][k].sets =>
                  /\ Pushable(m, k)
                  /\ pushTarget'[m][k].sets = pushTarget[m][k].sets + 1
                  /\ pushTarget'[m][k].last = pushCells[m][k]]_vars

\* A counter registered before Push and one registered after it have both
\* been pushed twice, the later one with the total 2 at the second tick.
C27_Witness ==
    /\ Len(pushMetrics) = 2
    /\ ~pushMetrics[1].late /\ pushMetrics[2].late
    /\ pushTarget[1][1].sets = 2 /\ pushTarget[1][1].last = 0
    /\ pushTarget[2][1].sets = 2 /\ pushTarget[2][1].last = 2
    /\ pushTarget[2][1].news = 1

\* C28: the stop function shuts the loop down cleanly: a walk that is in
\* progress when stop is called runs to its end, the stop call then
\* returns, and after it has returned the target gets no further call.
C28_StopIsClean ==
    /\ [][(pushLoop = "pushing" /\ pushLoop' # "pushing") =>
              (pushAt[1] > Len(pushMetrics) /\ pushLoop' = "waiting")]_vars
    /\ (pushStopPc = "waiting") ~> (pushStopPc = "returned")
    /\ [](pushStopPc = "returned" => pushLoop = "exited")
    /\ [][pushStopPc = "returned" => pushTarget' = pushTarget]_vars

\* Stop was called when the first walk stood before its first cell; the
\* walk pushed both metrics all the same and stop has returned.
C28_Witness ==
    /\ pushStopPc = "returned"
    /\ pushStopSaw = [loop |-> "pushing", at |-> <<1, 1>>]
    /\ pushTicks = 1
    /\ Len(pushMetrics) = 2
    /\ pushTarget[1][1].sets = 1
    /\ pushTarget[2][1].sets = 1

\* The sum of a sequence of integers.
RECURSIVE SeqSum(_)
SeqSum(seq) == IF seq = <<>> THEN 0 ELSE Head(seq) + SeqSum(Tail(seq))

\* The value of an int64 accumulator after the increments of a sequence.
RECURSIVE Int64Sum(_)
Int64Sum(seq) ==
    IF seq = <<>> THEN 0
    ELSE AtomicAdd(Int64Sum(SubSeq(seq, 1, Len(seq) - 1)), seq[Len(seq)])

\* C29: a tally counter handle turns cumulative totals into increments
\* without double counting: after the calls Set(t1), ..., Set(tn) on one
\* handle the increments forwarded to the tally counter add up to tn, in
\* the counter's int64 arithmetic for any totals and exactly for totals
\* that are not negative, and a Set of an unchanged total forwards 0.
C29_TallyCounterTelescopes ==
    LET n == Len(tallySets)
    IN  /\ Len(tallyIncs) = n
        /\ n >= 1 =>
               /\ Int64Sum(tallyIncs) = tallySets[n]
               /\ (\A i \in 1..n : tallySets[i] >= 0) =>
                      SeqSum(tallyIncs) = tallySets[n]
        /\ \A i \in 2..n :
               tallySets[i] = tallySets[i - 1] => tallyIncs[i] = 0

\* The total 2 is set twice and then the total 5: 2, 0 and 3 are
\* forwarded.
C29_Witness ==
    /\ tallySets = <<2, 2, 5>>
    /\ tallyIncs = <<2, 0, 3>>

\* The goroutines whose Add has returned.
AddsReturned == {p \in Adders : addPc[p] = "returned"}

\* The sum of the arguments of the calls of a set of goroutines.
RECURSIVE AddsSum(_)
AddsSum(P) ==
    IF P = {} THEN 0
    ELSE LET p == CHOOSE q \in P : TRUE IN addN[p] + AddsSum(P \ {p})

\* C30: concurrent updates of one cell are never lost: once the Add(n_i)
\* calls made, each with n_i > 0, have all returned, in any interleaving,
\* Load is the initial value plus the sum of the n_i and the values the
\* calls returned are pairwise distinct.
C30_NoLostUpdates ==
    (/\ AddsReturned # {}
     /\ \A p \in Adders : addPc[p] # "called"
     /\ \A p \in AddsReturned : addN[p] > 0)
        => /\ addVal = 0 + AddsSum(AddsReturned)
           /\ \A p, q \in AddsReturned : p # q => addRet[p] # addRet[q]

\* The cell, in int64 arithmetic: no Add is lost, and each call returned
\* the cell's value right after its own addition.
AddConcLinearizable ==
    (\A p \in Adders : addPc[p] # "called")
        => addVal = Wrap(AddsSum({p \in AddsReturned : addN[p] > 0}))

\* What the entry of vector v under the key holds.
EntryValue(v, key) == entHeap[entMap[v][key]]

RegisterErrors ==
    {"different label names", "same constant label names and values"}

\* C32: a register call that fails, for inconsistent dimensions or for a
\* duplicate identity, leaves the registry as it was: the map from name to
\* dimensions, the identity set, the metric list and what Snapshot returns
\* are the same after the call as before it.
C32_FailedRegisterChangesNothing ==
    [][(regLast'.called /\ regLast'.err \in RegisterErrors)
          => /\ dimsByName' = dimsByName
             /\ ids' = ids
             /\ metrics' = metrics
             /\ coreRegistrySnapshot' = coreRegistrySnapshot]_vars

\* A call was refused for its dimensions on a registry that holds a
\* metric, of which it changed nothing.
C32_Witness ==
    /\ LastRegistered
    /\ regLast.err = "different label names"
    /\ Len(metrics) = 1
    /\ metrics = regLast.before
    /\ Cardinality(ids) = 1
    /\ regLast.m.meta.Name \in DOMAIN dimsByName
    /\ dimsByName[regLast.m.meta.Name] # regLast.m.meta.Dims

\* The goroutine holds the mutex or waits in its Lock.
Holds(mu, p) == p \in mu.r \/ mu.w = p \/ p \in mu.pending

RegisterPcs == {"register", "register waits", "register locked"}
SnapshotPcs ==
    {"snapshot", "snapshot walks", "snapshot reads", "snapshot sorts"}
GetPcs ==
    {"getOrCreate", "getOrCreate probes", "getOrCreate waits",
     "getOrCreate locked"}

\* C33: no interleaving of register, snapshot and getOrCreate calls
\* deadlocks.  getOrCreate takes only the vector's lock, register only the
\* registry's write lock, snapshot the registry's read lock and then the
\* vector's read lock; while a call is under way some call can take a
\* step, under fair scheduling every call returns, and a goroutine that
\* has returned, with or without an error, holds no lock.
C33_NoDeadlock ==
    /\ [](\A p \in Lockers :
             /\ lkPc[p] \in GetPcs => ~Holds(lkReg, p)
             /\ lkPc[p] \in RegisterPcs =>
                    ~Holds(lkVec, p) /\ p \notin lkReg.r
             /\ lkPc[p] \in SnapshotPcs =>
                    /\ lkReg.w # p /\ p \notin lkReg.pending
                    /\ lkVec.w # p /\ p \notin lkVec.pending
                    /\ p \in lkVec.r => p \in lkReg.r
             /\ lkPc[p] = "idle" => ~Holds(lkReg, p) /\ ~Holds(lkVec, p))
    /\ []((\E p \in Lockers : lkPc[p] # "idle")
             => ENABLED (\E p \in Lockers : LockerStep(p)))
    /\ \A p \in Lockers : (lkPc[p] # "idle") ~> (lkPc[p] = "idle")

\* A snapshot holds the registry's read lock and waits for the vector's,
\* which a getOrCreate has asked to write-lock, and a register waits for
\* the registry's lock.
C33_Witness ==
    \E s, g, r \in Lockers :
        /\ lkPc[s] = "snapshot walks"
        /\ lkPc[g] = "getOrCreate waits"
        /\ lkPc[r] = "register waits"
        /\ lkVec.pending = {g}
        /\ lkReg.r = {s}
        /\ lkReg.pending = {r}
        /\ lkCalls = MaxLockCalls
        /\ lkIds # {}

\* The three structures of a registry agree: as many identities as listed
\* metrics, every listed metric's identity recorded, and the map holding
\* exactly the listed metrics' names, each with the metrics' dimensions.
StructuresAgree(dims, idset, list) ==
    /\ Cardinality(idset) = Len(list)
    /\ \A k \in 1..Len(list) : writeID(list[k].meta) \in idset
    /\ DOMAIN dims = {list[k].meta.Name : k \in 1..Len(list)}
    /\ \A k \in 1..Len(list) : dims[list[k].meta.Name] = list[k].meta.Dims

\* C34: after any successful and failed register calls the name-to-
\* dimensions map, the identity set and the metric list agree whenever no
\* register holds the lock, and a snapshot that runs beside the register
\* calls never finds them in disagreement.
C34_StructuresAgree ==
    /\ regMu = 0 => StructuresAgree(dimsByName, ids, metrics)
    /\ StructuresAgree(regSeen.dimsByName, regSeen.ids, regSeen.metrics)

\* A snapshot found two metrics of two names registered, and since then a
\* register that will fail has taken the lock.
C34_Witness ==
    /\ Len(regSeen.metrics) = 2
    /\ regSeen.metrics = metrics
    /\ Cardinality(DOMAIN regSeen.dimsByName) = 2
    /\ \E p \in Procs :
           /\ regPc[p] = "locked"
           /\ registerError(regArg[p].meta) # "nil"

\* C35: Labeled is a function of its inputs: for a parent and an argument
\* map there is one Scope it can return, also when two names of the map
\* scrub to one name, whatever the order in which the map is ranged over.
C35_LabeledIsAFunction ==
    labLast.called =>
        Labeled(scopes[labLast.parent], labLast.ls) = {labLast.ret}

\* The names the vector was declared with, as they were written.
DeclaredNames == VectorOpts.VariableLabels

\* The names a Get passes.
SuppliedNames(labels) == [i \in 1..(Len(labels) \div 2) |-> labels[2 * i - 1]]

\* C36: Get compares the names it is passed with the names as they were
\* declared, before scrubbing: it succeeds exactly when the names are the
\* declared ones in the declared order, so a name that differs from the
\* declared one is rejected even if the two scrub to one name; and the
\* labels of every entry, which the snapshot shows, carry the scrubbed
\* names.
C36_NamesComparedUnscrubbed ==
    /\ gnLast.called =>
           /\ gnLast.err = "nil" <=> SuppliedNames(gnLast.labels) = DeclaredNames
           /\ (\E i \in 1..Len(DeclaredNames) :
                   /\ SuppliedNames(gnLast.labels)[i] # DeclaredNames[i]
                   /\ scrubName(SuppliedNames(gnLast.labels)[i])
                          = scrubName(DeclaredNames[i]))
                  => gnLast.err = "variable label doesn't match vector definition"
    /\ \A key \in DOMAIN gnMetrics :
           DOMAIN zip(gnMetrics[key].labelPairs)
               = {scrubName(DeclaredNames[i]) : i \in 1..Len(DeclaredNames)}

\* With an entry in the map whose labels are b_ and c, a Get that passes
\* b& for the declared b! was rejected.
C36_Witness ==
    /\ gnLast.called
    /\ SuppliedNames(gnLast.labels) = << <<"b", "&">>, <<"c">> >>
    /\ DeclaredNames = << <<"b", "!">>, <<"c">> >>
    /\ gnLast.err = "variable label doesn't match vector definition"
    /\ \E key \in DOMAIN gnMetrics :
           /\ DOMAIN zip(gnMetrics[key].labelPairs) = {<<"b", "_">>, <<"c">>}
           /\ gnMetrics[key].val = 2

\* C37: with the cell an int64 in two's complement, Add(n) with n > 0 and
\* Inc return a value strictly greater than the value the counter held
\* just before the call, for every prior value and every n.
C37_AddReturnsGreater ==
    ((ctrLast.op = "Add" /\ ctrLast.n > 0) \/ ctrLast.op = "Inc")
        => ctrLast.ret > ctrLast.pre

\* The totals given for a bucket, in the order of the Set calls.
TotalsGiven(b) ==
    LET at == SelectSeq(thCalls, LAMBDA c : c[1] = b)
    IN  [k \in 1..Len(at) |-> at[k][2]]

TotalsNeverDecrease(b) ==
    LET ts == TotalsGiven(b)
    IN  \A k \in 1..(Len(ts) - 1) : ts[k] <= ts[k + 1]

LastTotalGiven(b) ==
    LET ts == TotalsGiven(b) IN IF ts = <<>> THEN 0 ELSE ts[Len(ts)]

\* What tally holds for a bucket: the recordings that carry its value.
RecordedFor(b) == Times(thRecorded, recordOf(thType, b))

AloneInTally(b) ==
    \A c \in DOMAIN thLasts : c # b => recordOf(thType, c) # recordOf(thType, b)

SetIndexPastEnd ==
    /\ tiLast.op = "SetIndex"
    /\ tiLast.index >= Len(tiLast.bucketValue)

\* The last call was SetIndex inside the buckets it found, with a bucket
\* other than the stored one.
SetIndexMismatch ==
    /\ tiLast.op = "SetIndex"
    /\ tiLast.index >= 0
    /\ tiLast.index < Len(tiLast.bucketValue)
    /\ tiLast.bucket # tiLast.bucketValue[tiLast.index + 1]

\* SetIndex at or past the end adds the bucket and records the total.
SetIndexAdds ==
    /\ tiLast.panic = "none"
    /\ tiBucketValue = Append(tiLast.bucketValue, tiLast.bucket)
    /\ tiLasts = Append(tiLast.lasts, tiLast.total)

\* SetIndex on a mismatch panics and inserts nothing.
SetIndexRefuses ==
    /\ tiLast.panic = "insertion is not supported"
    /\ tiBucketValue = tiLast.bucketValue
    /\ tiLasts = tiLast.lasts

SameLengths == Len(tiLasts) = Len(tiBucketValue)

\* C39: SetIndex(i, b, total) with i at or past the end of the known
\* buckets adds the missing bucket b and records the total without
\* panicking; with i inside the known buckets and b other than the bucket
\* stored at i it panics and inserts nothing; after any Set and SetIndex
\* calls the list of last totals and the list of bucket values have the
\* same length.
C39_SetIndex ==
    /\ SetIndexPastEnd => SetIndexAdds
    /\ SetIndexMismatch => SetIndexRefuses
    /\ SameLengths

\* What holds of SetIndex: the claim for an index exactly at the end.
SetIndexAtEnd ==
    /\ (SetIndexPastEnd /\ tiLast.index = Len(tiLast.bucketValue)) => SetIndexAdds
    /\ SetIndexMismatch => SetIndexRefuses
    /\ SameLengths

====
